---- MODULE Spec2Model ----
(***************************************************************************)
(* Linear Document pipeline of mdwikicxpy (cxserver lineardoc):            *)
(* Contextualizer, Builder, Parser, TextBlock and the Doc passes.          *)
(*                                                                         *)
(* Tag objects live in an arena (heap): JavaScript shares one Tag object   *)
(* between the parser's stack, the builder's stacks, the chunk snapshots   *)
(* and the Doc items, and later passes mutate its attributes in place.     *)
(* A tag reference is its index in heap.                                   *)
(*                                                                         *)
(* A text is a sequence of characters; "a" stands for any non-whitespace   *)
(* character and " " for whitespace (all the code looks at is /\S/ and     *)
(* the length).  An attribute value made of a decimal number is the pair   *)
(* <<prefix, n>>, standing for the string prefix + String(n).              *)
(***************************************************************************)
EXTENDS Integers, Sequences, FiniteSets, TLC

\* ------------------------------------------------------------------ bounds
\* Parser events fed in one run.
MaxEvents == 5
\* Depth of the open-tag stack.
MaxDepth == 3
\* Chunks of a text block given to a TextBlock method.
MaxChunks == 2
\* Range mappings given to translate_tags.
MaxMappings == 2
\* Blocks of a document given to the Doc passes.
MaxBlocks == 2

\* ------------------------------------------------------------------- state
VARIABLES
    heap,        \* arena of Tag objects {name, attributes}
    allTags,     \* Parser.allTags: stack of open tags (references)
    contexts,    \* Contextualizer.contexts: stack parallel to allTags
    builders,    \* chain rootBuilder .. Parser.builder (each one's parent precedes it)
    options,     \* Parser.options
    error,       \* message of the exception that aborted the run, or NoError
    nEvents,     \* number of parser events fed so far
    lastEvent,   \* the kind of the last event the SAX parser delivered
    fed,         \* history: characters of text events received outside removable regions
    stage,       \* which pass has run last
    nextId,      \* the id counter of the Doc being processed
    textBlock,   \* a TextBlock given to TextBlock.segment / translate_tags
    boundaries,  \* what getBoundaries returned for it
    result,      \* the TextBlock returned
    translation, \* the targetText and rangeMappings given to translate_tags
    parsedDoc,   \* tet: the Doc read from the parser, then its wrapSections()
    segmentedDoc, \* tet: the Doc returned by segment()
    html,        \* tet: result, the HTML of segmentedDoc
    calls,       \* history: the calls that added the builder's pending text_chunks
    blockCalls,  \* history: for each item of the builder's doc, the calls behind it
    server,      \* server.js: the responses sent so far, one per request
    normalizer,  \* Normalizer: doc and tags
    adaptation,  \* TextBlock.adapt: the promises of one call
    returned     \* the value a method called on its own has returned

parserVars == <<allTags, contexts, builders, options, error, nEvents, lastEvent, fed>>
passVars == <<stage, nextId, textBlock, boundaries, result, translation, parsedDoc,
              segmentedDoc, html>>
builderVars == <<calls, blockCalls>>
serverVars == <<server>>
normVars == <<normalizer>>
adaptVars == <<adaptation>>
callVars == <<returned>>
auxVars == <<builderVars, serverVars, normVars, adaptVars, callVars>>
vars == <<heap, parserVars, passVars, auxVars>>

\* ---------------------------------------------------------------- values
U == "undefined"
NoError == "none"
NoId == <<U, 0>>
IdStr(prefix, n) == <<prefix, n>>

AttrNames == {"class", "typeof", "rel", "href", "about", "id",
              "data_mw_section_id", "data_segmentid", "data_linkid", "data_mw",
              "data_cx"}
IdAttrNames == {"id", "data_segmentid", "data_linkid"}

NoAttrs == [class |-> U, typeof |-> U, rel |-> U, href |-> U, about |-> U,
            id |-> NoId, data_mw_section_id |-> U, data_segmentid |-> NoId,
            data_linkid |-> NoId, data_mw |-> U, data_cx |-> U]

Has(attrs, a) == IF a \in IdAttrNames THEN attrs[a] # NoId ELSE attrs[a] # U

\* Object.keys(tag.attributes).length
NumAttrs(attrs) == Cardinality({a \in AttrNames : Has(attrs, a)})

Tag(name, attrs) == [name |-> name, attributes |-> attrs]

\* Plain texts
HasNonSpace(text) == \E i \in 1..Len(text) : text[i] # " "

RECURSIVE Concat(_)
Concat(seqs) ==
    IF seqs = <<>> THEN <<>> ELSE Head(seqs) \o Concat(Tail(seqs))

RECURSIVE Reverse(_)
Reverse(s) == IF s = <<>> THEN <<>> ELSE Append(Reverse(Tail(s)), Head(s))

\* ------------------------------------------------------------ tag utilities
is_reference(tag) ==
    tag.attributes.typeof \in {"mw:Extension/ref", "mw:Cite/Footnote", "mw:Reference"}

isMath(tag) ==
    tag.attributes.typeof = "mw:Extension/math" \/ tag.name = "math"

is_transclusion(tag) == tag.attributes.typeof = "mw:Transclusion"

is_transclusion_fragment(tag) == tag.attributes.about = "#mwt1"

isExternalLink(tag) == tag.attributes.rel = "mw:ExtLink"

isSegment(tag) == Has(tag.attributes, "data_segmentid")

InlineEmptyTags == {"br", "img", "hr", "meta", "link", "input", "wbr"}

is_inline_empty_tag(name) == name \in InlineEmptyTags

\* ---------------------------------------------------------------- TextChunk
NoContent == [kind |-> "none"]
TagContent(t) == [kind |-> "tag", tag |-> t]
DocContent(d) == [kind |-> "doc", doc |-> d]

TextChunk(text, tags, inline_content) ==
    [text |-> text, tags |-> tags, inline_content |-> inline_content]

\* ---------------------------------------------------------------- TextBlock
RECURSIVE Offsets(_, _, _, _)
Offsets(text_chunks, i, cursor, acc) ==
    IF i > Len(text_chunks) THEN acc
    ELSE Offsets(text_chunks, i + 1, cursor + Len(text_chunks[i].text),
                 Append(acc, [start |-> cursor,
                              length |-> Len(text_chunks[i].text),
                              tags |-> text_chunks[i].tags]))

TextBlock_skipEmpty(text_chunks, can_segment) ==
    [text_chunks |-> text_chunks,
     can_segment |-> can_segment,
     offsets |-> Offsets(SelectSeq(text_chunks, LAMBDA c : c.text # <<>>), 1, 0, <<>>)]

TextBlock(text_chunks, can_segment) ==
    [text_chunks |-> text_chunks,
     can_segment |-> can_segment,
     offsets |-> Offsets(text_chunks, 1, 0, <<>>)]

get_plain_text(block) ==
    Concat([i \in 1..Len(block.text_chunks) |-> block.text_chunks[i].text])

\* ---------------------------------------------------------------------- Doc
NullTag == 0

Doc(wrapper_tag) == [wrapper_tag |-> wrapper_tag, items |-> <<>>, categories |-> <<>>]

OpenItem(t) == [type |-> "open", tag |-> t]
CloseItem(t) == [type |-> "close", tag |-> t]
TextBlockItem(block) == [type |-> "textblock", block |-> block]
BlockSpaceItem(space) == [type |-> "blockspace", space |-> space]

add_item(doc, item) == [doc EXCEPT !.items = Append(@, item)]

\* ------------------------------------------------------------------ Builder
\* The builder's parent is the builder before it in the chain `builders`.
Builder(wrapper_tag) ==
    [BLOCK_TAGS |-> <<>>,
     inline_annotation_tags |-> <<>>,
     inline_annotation_tags_used |-> 0,
     doc |-> Doc(wrapper_tag),
     text_chunks |-> <<>>,
     is_block_segmentable |-> TRUE]

create_child_builder(wrapper_tag) == Builder(wrapper_tag)

isSection(tag) ==
    tag.name = "section" /\ Has(tag.attributes, "data_mw_section_id")

isCategory(tag) ==
    /\ tag.name = "link"
    /\ tag.attributes.rel = "mw:PageProp/Category"
    /\ ~Has(tag.attributes, "about")

isIgnoredTag(tag) == isSection(tag) \/ isCategory(tag)

\* text_chunk.inline_content || text_chunk.text.match(/\S/)
ChunkHasContent(chunk) ==
    chunk.inline_content.kind # "none" \/ HasNonSpace(chunk.text)

finish_text_block_keepFlag(b) ==
    IF Len(b.text_chunks) = 0 THEN b
    ELSE LET whitespaceOnly ==
                 \A i \in 1..Len(b.text_chunks) : ~ChunkHasContent(b.text_chunks[i])
             whitespace ==
                 Concat([i \in 1..Len(b.text_chunks) |-> b.text_chunks[i].text])
             item == IF whitespaceOnly
                     THEN BlockSpaceItem(whitespace)
                     ELSE TextBlockItem(TextBlock(b.text_chunks, b.is_block_segmentable))
         IN [b EXCEPT !.doc = add_item(@, item),
                      !.text_chunks = <<>>]

finish_text_block(b) ==
    IF Len(b.text_chunks) = 0 THEN b
    ELSE LET whitespaceOnly ==
                 \A i \in 1..Len(b.text_chunks) : ~ChunkHasContent(b.text_chunks[i])
             whitespace ==
                 Concat([i \in 1..Len(b.text_chunks) |-> b.text_chunks[i].text])
             item == IF whitespaceOnly
                     THEN BlockSpaceItem(whitespace)
                     ELSE TextBlockItem(TextBlock(b.text_chunks, b.is_block_segmentable))
         IN [b EXCEPT !.doc = add_item(@, item),
                      !.text_chunks = <<>>,
                      !.is_block_segmentable = TRUE]

\* tag.attributes.rel = 'cx:Figure' is written into the shared Tag object.
push_block_tag_heap(h, t) ==
    IF ~isIgnoredTag(h[t]) /\ h[t].name = "figure"
    THEN [h EXCEPT ![t].attributes.rel = "cx:Figure"]
    ELSE h

push_block_tag_dropAnnotations(h, b, t) ==
    LET b1 == finish_text_block(b)
        b2 == [b1 EXCEPT !.BLOCK_TAGS = Append(@, t),
                         !.inline_annotation_tags = <<>>]
    IN IF isIgnoredTag(h[t]) THEN b2
       ELSE [b2 EXCEPT !.doc = add_item(@, OpenItem(t))]

push_block_tag_openFirst(h, b, t) ==
    LET b1 == IF isIgnoredTag(h[t]) THEN b
              ELSE [b EXCEPT !.doc = add_item(@, OpenItem(t))]
        b2 == finish_text_block(b1)
    IN  [b2 EXCEPT !.BLOCK_TAGS = Append(@, t)]

push_block_tag(h, b, t) ==
    LET b1 == finish_text_block(b)
        b2 == [b1 EXCEPT !.BLOCK_TAGS = Append(@, t)]
    IN IF isIgnoredTag(h[t]) THEN b2
       ELSE [b2 EXCEPT !.doc = add_item(@, OpenItem(t))]

\* Array.prototype.pop
Pop(stack) == IF stack = <<>> THEN <<>> ELSE SubSeq(stack, 1, Len(stack) - 1)
Top(stack) == IF stack = <<>> THEN NullTag ELSE stack[Len(stack)]

\* Result: the builder after the call and the error thrown, if any.
pop_block_tag_finishFirst(h, b, tag_name) ==
    LET tag == Top(b.BLOCK_TAGS)
        b2 == finish_text_block([b EXCEPT !.BLOCK_TAGS = Pop(@)])
    IN IF tag = NullTag \/ h[tag].name # tag_name
       THEN [b |-> b2, err |-> "Mismatched block tags"]
       ELSE [b |-> IF isIgnoredTag(h[tag]) THEN b2
                   ELSE [b2 EXCEPT !.doc = add_item(@, CloseItem(tag))],
             err |-> NoError]

pop_block_tag(h, b, tag_name) ==
    LET tag == Top(b.BLOCK_TAGS)
        b1 == [b EXCEPT !.BLOCK_TAGS = Pop(@)]
    IN IF tag = NullTag \/ h[tag].name # tag_name
       THEN [b |-> b1, err |-> "Mismatched block tags"]
       ELSE LET b2 == finish_text_block(b1)
            IN [b |-> IF isIgnoredTag(h[tag]) THEN b2
                      ELSE [b2 EXCEPT !.doc = add_item(@, CloseItem(tag))],
                err |-> NoError]

push_inline_annotation_tag(b, t) ==
    [b EXCEPT !.inline_annotation_tags = Append(@, t)]

add_text_chunk_skipEmpty(b, text, can_segment) ==
    IF text = <<>> THEN b
    ELSE [b EXCEPT !.text_chunks =
                       Append(@, TextChunk(text, b.inline_annotation_tags, NoContent)),
                   !.inline_annotation_tags_used = Len(b.inline_annotation_tags),
                   !.is_block_segmentable = can_segment]

add_text_chunk_and(b, text, can_segment) ==
    [b EXCEPT !.text_chunks =
                  Append(@, TextChunk(text, b.inline_annotation_tags, NoContent)),
              !.inline_annotation_tags_used = Len(b.inline_annotation_tags),
              !.is_block_segmentable = @ /\ can_segment]

add_text_chunk(b, text, can_segment) ==
    [b EXCEPT !.text_chunks =
                  Append(@, TextChunk(text, b.inline_annotation_tags, NoContent)),
              !.inline_annotation_tags_used = Len(b.inline_annotation_tags),
              !.is_block_segmentable = can_segment]

\* content is TagContent(t) or DocContent(d); only a tag can be a category.
add_inline_content_flagFirst(h, b, content, can_segment) ==
    LET b0 == [b EXCEPT !.is_block_segmentable = IF ~can_segment THEN FALSE ELSE @]
    IN  IF content.kind = "tag" /\ isCategory(h[content.tag])
        THEN [b0 EXCEPT !.doc.categories = Append(@, content.tag)]
        ELSE [b0 EXCEPT !.text_chunks =
                            Append(@, TextChunk(<<>>, b.inline_annotation_tags, content)),
                        !.inline_annotation_tags_used = Len(b.inline_annotation_tags)]

add_inline_content_asChunk(h, b, content, can_segment) ==
    LET b1 == [b EXCEPT !.text_chunks =
                            Append(@, TextChunk(<<>>, b.inline_annotation_tags, content)),
                        !.is_block_segmentable = IF ~can_segment THEN FALSE ELSE @,
                        !.inline_annotation_tags_used = Len(b.inline_annotation_tags)]
    IN  IF content.kind = "tag" /\ isCategory(h[content.tag])
        THEN [b1 EXCEPT !.doc.categories = Append(@, content.tag)]
        ELSE b1

add_inline_content(h, b, content, can_segment) ==
    IF content.kind = "tag" /\ isCategory(h[content.tag])
    THEN [b EXCEPT !.doc.categories = Append(@, content.tag)]
    ELSE [b EXCEPT !.text_chunks =
                       Append(@, TextChunk(<<>>, b.inline_annotation_tags, content)),
                   !.is_block_segmentable = IF ~can_segment THEN FALSE ELSE @,
                   !.inline_annotation_tags_used = Len(b.inline_annotation_tags)]

\* The index at which the backward scan of pop_inline_annotation_tag stops
\* (0: it ran through all pending chunks).
RECURSIVE ScanStop(_, _, _)
ScanStop(chunks, i, tag) ==
    IF i = 0 THEN 0
    ELSE IF chunks[i].tags = <<>> THEN i
    ELSE IF ChunkHasContent(chunks[i]) \/ Top(chunks[i].tags) # tag THEN i
    ELSE ScanStop(chunks, i - 1, tag)

\* can_segment is not passed to add_inline_content here: undefined, falsy.
pop_inline_annotation_tag(h, b, tag_name) ==
    LET tag == Top(b.inline_annotation_tags)
        rest == Pop(b.inline_annotation_tags)
        b1 == [b EXCEPT !.inline_annotation_tags = rest,
                        !.inline_annotation_tags_used =
                            IF @ = Len(rest) THEN @ - 1 ELSE @]
        i == ScanStop(b.text_chunks, Len(b.text_chunks), tag)
        replace == i = 0 \/ b.text_chunks[i].tags = <<>>
        whitespace ==
            Concat([k \in 1..(Len(b.text_chunks) - i) |-> b.text_chunks[i + k].text])
        subDoc ==
            add_item(add_item(add_item(Doc(NullTag), OpenItem(tag)),
                TextBlockItem(TextBlock(<<TextChunk(whitespace, <<>>, NoContent)>>, FALSE))),
                CloseItem(tag))
    IN IF tag = NullTag \/ h[tag].name # tag_name
       THEN [b |-> b1, err |-> "Mismatched inline tags"]
       ELSE IF NumAttrs(h[tag].attributes) = 0
       THEN [b |-> b1, err |-> NoError]
       ELSE IF replace /\ (is_reference(h[tag]) \/ isExternalLink(h[tag])
                           \/ is_transclusion(h[tag]))
       THEN [b |-> add_inline_content(h,
                       [b1 EXCEPT !.text_chunks = SubSeq(@, 1, i)],
                       DocContent(subDoc), FALSE),
             err |-> NoError]
       ELSE [b |-> b1, err |-> NoError]

\* ----------------------------------------------------------- Contextualizer
RemovableContext == "removable"

get_context(ctxs) == IF ctxs = <<>> THEN U ELSE ctxs[Len(ctxs)]

get_child_context(tag, ctxs) ==
    IF tag.name = "figure" THEN "media"
    ELSE IF tag.name = "figcaption" THEN U
    ELSE get_context(ctxs)

can_segment_noAncestor(ctxs) ==
    /\ get_context(ctxs) = U
    /\ \A i \in 1..Len(ctxs) : ctxs[i] \notin {"removable", "verbatim", "media"}

can_segment(ctxs) == get_context(ctxs) = U

\* MwContextualizer, configured with removableSections as the orchestrator does.
RemovableClasses == {"ambox", "hatnote", "metadata", "navbar", "navbox",
                     "sisterproject", "sistersitebox", "vertical-navbox"}
RemovableRdfa == {"mw:Extension/indicator", "mw:Extension/templatestyles"}
RemovableTemplates == {"Anchor", "DEFAULTSORT", "Short description", "Void"}

isRemovable(tag) ==
    \/ tag.attributes.class \in RemovableClasses
    \/ tag.attributes.typeof \in RemovableRdfa
    \/ (is_transclusion(tag) /\ tag.attributes.data_mw \in RemovableTemplates)

mw_get_child_context(tag, ctxs) ==
    IF get_context(ctxs) = RemovableContext \/ isRemovable(tag)
    THEN RemovableContext
    ELSE IF tag.name \in {"audio", "video"} /\ get_context(ctxs) = "media"
    THEN "media-inline"
    ELSE get_child_context(tag, ctxs)

\* Contextualizer.on_open_tag, with the child context of MwContextualizer.
Contextualizer_on_open_tag(tag, ctxs) == Append(ctxs, mw_get_child_context(tag, ctxs))

Contextualizer_on_close_tag_keepRemovable(ctxs) ==
    IF get_context(ctxs) = RemovableContext THEN ctxs ELSE Pop(ctxs)

\* Contextualizer.on_close_tag
Contextualizer_on_close_tag(ctxs) == Pop(ctxs)

\* ------------------------------------------------------------------- Parser
BLOCK_TAGS ==
    {"html", "head", "body", "script",
     "title", "style", "meta", "link", "noscript", "base",
     "audio", "data", "datagrid", "datalist", "dialog", "eventsource", "form",
     "iframe", "main", "menu", "menuitem", "optgroup", "option",
     "div", "p",
     "table", "tbody", "thead", "tfoot", "caption", "th", "tr", "td",
     "ul", "ol", "li", "dl", "dt", "dd",
     "h1", "h2", "h3", "h4", "h5", "h6", "hgroup",
     "article", "aside", "nav", "section", "footer", "header", "figure",
     "figcaption", "fieldset", "details", "blockquote",
     "hr", "button", "canvas", "center", "col", "colgroup", "embed",
     "map", "object", "pre", "progress", "video",
     "img", "br",
     "wiki-chart"}

is_inline_annotation_tag(tag_name, isTransclusion, ctxs) ==
    LET context == get_context(ctxs)
    IN IF tag_name = "span" /\ context = "media" THEN FALSE
       ELSE IF tag_name \in {"audio", "video"} /\ context = "media-inline" THEN TRUE
       ELSE IF tag_name = "style" /\ isTransclusion THEN TRUE
       ELSE tag_name \notin BLOCK_TAGS

SegmentBlockTag == Tag("div", [NoAttrs EXCEPT !.class = "cx-segment-block"])

\* The current builder and the chain with the current builder replaced.
Cur(bs) == bs[Len(bs)]
SetCur(bs, b) == [bs EXCEPT ![Len(bs)] = b]

\* A tag of allTags matched isRemovable: the events up to its close are in
\* its removable region.
InRemovableRegion(h, tags) == \E i \in 1..Len(tags) : isRemovable(h[tags[i]])

\* Parser.on_open_tag: the new Tag object is heap[Len(heap) + 1].
on_open_tag(tag) ==
    LET t == Len(heap) + 1
        h1 == Append(heap, tag)
    IN /\ error = NoError
       /\ nEvents < MaxEvents
       /\ Len(allTags) < MaxDepth
       /\ nEvents' = nEvents + 1
       /\ lastEvent' = "open"
       /\ allTags' = Append(allTags, t)
       /\ UNCHANGED <<options, error, fed>>
       /\ IF get_context(contexts) = RemovableContext \/ isRemovable(tag)
          THEN /\ heap' = h1
               /\ contexts' = Contextualizer_on_open_tag(tag, contexts)
               /\ UNCHANGED builders
          ELSE LET isolate == options.isolateSegments /\ isSegment(tag)
                   h2 == IF isolate THEN Append(h1, SegmentBlockTag) ELSE h1
                   bs1 == IF isolate
                          THEN SetCur(builders, push_block_tag(h2, Cur(builders), t + 1))
                          ELSE builders
                   b == Cur(bs1)
                   isRef == is_reference(tag) \/ isMath(tag)
                   isEmpty == ~isRef /\ is_inline_empty_tag(tag.name)
                   isAnn == /\ ~isRef /\ ~isEmpty
                            /\ is_inline_annotation_tag(tag.name, is_transclusion(tag),
                                                        contexts)
                   isBlock == ~isRef /\ ~isEmpty /\ ~isAnn
                   h3 == IF isBlock THEN push_block_tag_heap(h2, t) ELSE h2
               IN /\ heap' = h3
                  /\ builders' =
                        IF isRef THEN Append(bs1, create_child_builder(t))
                        ELSE IF isEmpty
                        THEN SetCur(bs1, add_inline_content(h2, b, TagContent(t),
                                                            can_segment(contexts)))
                        ELSE IF isAnn
                        THEN SetCur(bs1, push_inline_annotation_tag(b, t))
                        ELSE SetCur(bs1, push_block_tag(h2, b, t))
                  /\ contexts' = Contextualizer_on_open_tag(h3[t], contexts)

\* Parser.on_close_tag: the SAX parser closes the innermost open element.
on_close_tag ==
    /\ error = NoError
    /\ nEvents < MaxEvents
    /\ allTags # <<>>
    /\ LET t == Top(allTags)
           tag == heap[t]
           tag_name == tag.name
           is_ann == is_inline_annotation_tag(tag_name, is_transclusion(tag), contexts)
           ctxs == Contextualizer_on_close_tag(contexts)
           b == Cur(builders)
       IN /\ nEvents' = nEvents + 1
          /\ lastEvent' = "close"
          /\ allTags' = Pop(allTags)
          /\ contexts' = ctxs
          /\ UNCHANGED <<heap, options, fed>>
          /\ IF isRemovable(tag) \/ get_context(contexts) = RemovableContext
             THEN UNCHANGED <<builders, error>>
             ELSE IF is_inline_empty_tag(tag_name)
             THEN UNCHANGED <<builders, error>>
             ELSE IF is_ann /\ Len(b.inline_annotation_tags) > 0
             THEN LET r1 == pop_inline_annotation_tag(heap, b, tag_name)
                      isolate == /\ r1.err = NoError
                                 /\ options.isolateSegments /\ isSegment(tag)
                      r2 == IF isolate THEN pop_block_tag(heap, r1.b, "div") ELSE r1
                  IN /\ builders' = SetCur(builders, r2.b)
                     /\ error' = r2.err
             ELSE IF is_ann /\ Len(builders) > 1
             THEN IF tag_name \notin {"span", "sup"}
                  THEN /\ error' = "Expected close reference"
                       /\ UNCHANGED builders
                  ELSE LET child == finish_text_block(b)
                           parent == builders[Len(builders) - 1]
                       IN /\ builders' =
                                SetCur(Pop(builders),
                                       add_inline_content(heap, parent,
                                           DocContent(child.doc), can_segment(ctxs)))
                          /\ UNCHANGED error
             ELSE IF ~is_ann
             THEN LET b1 == IF tag_name = "p" /\ can_segment(ctxs)
                            THEN add_text_chunk(b, <<>>, can_segment(ctxs))
                            ELSE b
                      r == pop_block_tag(heap, b1, tag_name)
                  IN /\ builders' = SetCur(builders, r.b)
                     /\ error' = r.err
             ELSE /\ error' = "Unexpected close tag"
                  /\ UNCHANGED builders

\* Texts of the text events.
Texts == {<<"a">>, <<" ">>}

InScript == allTags # <<>> /\ heap[Top(allTags)].name = "script"

\* Parser.ontext: character data outside a script element.
ontext(text) ==
    /\ error = NoError
    /\ nEvents < MaxEvents
    /\ ~InScript
    /\ nEvents' = nEvents + 1
    /\ lastEvent' = "text"
    /\ fed' = IF InRemovableRegion(heap, allTags) THEN fed ELSE fed + Len(text)
    /\ builders' = IF get_context(contexts) = RemovableContext THEN builders
                   ELSE SetCur(builders,
                               add_text_chunk(Cur(builders), text, can_segment(contexts)))
    /\ UNCHANGED <<heap, allTags, contexts, options, error>>

\* Parser.onscript: the SAX parser reports the content of a script element.
onscript(text) ==
    /\ error = NoError
    /\ nEvents < MaxEvents
    /\ InScript
    /\ nEvents' = nEvents + 1
    /\ lastEvent' = "script"
    /\ fed' = IF InRemovableRegion(heap, allTags) THEN fed ELSE fed + Len(text)
    /\ builders' = SetCur(builders,
                          add_text_chunk(Cur(builders), text, can_segment(contexts)))
    /\ UNCHANGED <<heap, allTags, contexts, options, error>>

\* Parser.init, with the options the parser was constructed with.
ParserInit ==
    /\ allTags = <<>>
    /\ contexts = <<>>
    /\ builders = <<Builder(NullTag)>>
    /\ options \in [isolateSegments : BOOLEAN]
    /\ error = NoError
    /\ nEvents = 0
    /\ lastEvent = "none"
    /\ fed = 0

\* No pass has run: nothing was read from the parser yet.
NoBlock == TextBlock(<<>>, FALSE)

NoTranslation == [targetText |-> <<>>, rangeMappings |-> <<>>]

\* No Builder method was called on its own and no request was received.
NoServer == <<>>

\* No method has returned yet.
NoReturn == [of |-> "none"]

\* Before TextBlock.adapt is called there are no promises.
NoAdaptation ==
    [adapterPromises |-> <<>>, textChunkPromises |-> <<>>,
     all |-> "none", returned |-> "none"]

\* Normalizer.init
NormalizerInit == [doc |-> <<>>, tags |-> <<>>]

NoAux ==
    /\ calls = <<>> /\ blockCalls = <<>>
    /\ server = NoServer
    /\ normalizer = NormalizerInit
    /\ adaptation = NoAdaptation
    /\ returned = NoReturn

NoPass ==
    /\ stage = "parse"
    /\ translation = NoTranslation
    /\ nextId = 0
    /\ textBlock = NoBlock
    /\ boundaries = <<>>
    /\ result = NoBlock
    /\ parsedDoc = Doc(NullTag)
    /\ segmentedDoc = Doc(NullTag)
    /\ html = <<>>
    /\ NoAux

Init == heap = <<>> /\ ParserInit /\ NoPass

\* Tags of the input documents.
TagP == Tag("p", NoAttrs)
TagAmbox == Tag("div", [NoAttrs EXCEPT !.class = "ambox"])
TagScript == Tag("script", NoAttrs)
TagB == Tag("b", NoAttrs)
TagExtLink == Tag("a", [NoAttrs EXCEPT !.rel = "mw:ExtLink", !.href = "http://x"])
TagRef == Tag("sup", [NoAttrs EXCEPT !.typeof = "mw:Extension/ref"])
TagImg == Tag("img", NoAttrs)
TagFigure == Tag("figure", NoAttrs)
TagFigcaption == Tag("figcaption", NoAttrs)
TagVideo == Tag("video", NoAttrs)
TagSegSpan == Tag("span", [NoAttrs EXCEPT !.data_segmentid = IdStr("", 7)])
TagSegP == Tag("p", [NoAttrs EXCEPT !.data_segmentid = IdStr("", 8)])

TagMath == Tag("math", NoAttrs)

InputTags == {TagP, TagAmbox, TagScript, TagB, TagExtLink, TagRef, TagImg,
              TagFigure, TagFigcaption, TagVideo, TagSegSpan, TagSegP, TagMath}

OpenTag == \E tag \in InputTags : on_open_tag(tag) /\ UNCHANGED <<passVars, auxVars>>
CloseTag == on_close_tag /\ UNCHANGED <<passVars, auxVars>>
Text == \E text \in Texts : ontext(text) /\ UNCHANGED <<passVars, auxVars>>
Script == \E text \in Texts : onscript(text) /\ UNCHANGED <<passVars, auxVars>>

Next == OpenTag \/ CloseTag \/ Text \/ Script

Spec == Init /\ [][Next]_vars

\* The parser on documents of the tags that decide contexts: removable
\* content, figures with captions and video, paragraphs and annotations.
ContextTags == {TagP, TagAmbox, TagB, TagFigure, TagFigcaption, TagVideo}

InitContext == Init /\ ~options.isolateSegments

ContextOpenTag ==
    \E tag \in ContextTags : on_open_tag(tag) /\ UNCHANGED <<passVars, auxVars>>

NextContext == ContextOpenTag \/ CloseTag \/ Text

SpecContext == InitContext /\ [][NextContext]_vars

\* The parser on paragraphs: text, annotations, references and images.
ParagraphTags == {TagP, TagB, TagRef, TagImg}

ParagraphOpenTag ==
    \E tag \in ParagraphTags : on_open_tag(tag) /\ UNCHANGED <<passVars, auxVars>>

NextParagraph == ParagraphOpenTag \/ CloseTag \/ Text

SpecParagraph == InitContext /\ [][NextParagraph]_vars

\* ------------------------------------------------------- TextBlock.segment
\* The plain texts and boundary lists of the segmenter: offsets in order.
RECURSIVE SortedSeq(_)
SortedSeq(S) ==
    IF S = {} THEN <<>>
    ELSE LET lo == CHOOSE x \in S : \A y \in S : x <= y
         IN  <<lo>> \o SortedSeq(S \ {lo})

\* getNextId('segment' | 'link'): the next value of the Doc's counter.
getNextId(id) == IdStr("", id)

\* Doc.getRootItem: the tag of the first item that is not block space.
RECURSIVE Doc_getRootItem(_, _)
Doc_getRootItem(doc, i) ==
    IF i > Len(doc.items) THEN NullTag
    ELSE IF doc.items[i].type = "blockspace" THEN Doc_getRootItem(doc, i + 1)
    ELSE IF doc.items[i].type \in {"open", "close"} THEN doc.items[i].tag
    ELSE NullTag

RECURSIVE getRootItem(_, _)
getRootItem(text_chunks, i) ==
    IF i > Len(text_chunks) THEN NullTag
    ELSE LET text_chunk == text_chunks[i] IN
         IF text_chunk.tags = <<>> /\ HasNonSpace(text_chunk.text) THEN NullTag
         ELSE IF text_chunk.tags # <<>> THEN text_chunk.tags[1]
         ELSE IF text_chunk.inline_content.kind = "doc"
              THEN Doc_getRootItem(text_chunk.inline_content.doc, 1)
         ELSE IF text_chunk.inline_content.kind = "tag"
              THEN text_chunk.inline_content.tag
         ELSE getRootItem(text_chunks, i + 1)

\* utils.get_chunk_boundary_groups: the boundaries (given in order) that fall
\* on a character of each chunk, from its first to its last; boundaries 0 at
\* the head of the list are skipped.
RECURSIVE BoundaryGroups(_, _, _, _, _)
BoundaryGroups(bs, text_chunks, i, offset, ptr) ==
    IF i > Len(text_chunks) THEN <<>>
    ELSE LET chunkLength == Len(text_chunks[i].text)
             n == Cardinality({k \in ptr..Len(bs) :
                      \A j \in ptr..k : bs[j] <= offset + chunkLength - 1})
         IN  <<[chunk |-> text_chunks[i],
                boundaries |-> SubSeq(bs, ptr, ptr + n - 1)]>>
             \o BoundaryGroups(bs, text_chunks, i + 1, offset + chunkLength, ptr + n)

get_chunk_boundary_groups(bs, text_chunks) ==
    LET zeros == Cardinality({k \in 1..Len(bs) : \A j \in 1..k : bs[j] = 0})
    IN  BoundaryGroups(bs, text_chunks, 1, 0, zeros + 1)

\* utils.add_common_tag: the tag goes at the end of every chunk's tag list.
add_common_tag(text_chunks, t) ==
    [i \in 1..Len(text_chunks) |-> [text_chunks[i] EXCEPT !.tags = Append(@, t)]]

\* A translatable link: an anchor with an href that is no transclusion fragment.
isTranslatableLink(tag) ==
    tag.name = "a" /\ Has(tag.attributes, "href") /\ ~is_transclusion_fragment(tag)

\* utils.set_link_ids_in_place over the tags of the chunks, in order: the
\* tag objects are changed in place, so a tag met again already has its id.
RECURSIVE SetLinkIds(_, _, _)
SetLinkIds(h, id, tags) ==
    IF tags = <<>> THEN [h |-> h, id |-> id]
    ELSE LET t == Head(tags) IN
         IF isTranslatableLink(h[t]) /\ ~Has(h[t].attributes, "data_linkid")
         THEN SetLinkIds([h EXCEPT ![t].attributes.class = "cx-link",
                                   ![t].attributes.data_linkid = getNextId(id)],
                         id + 1, Tail(tags))
         ELSE SetLinkIds(h, id, Tail(tags))

set_link_ids_in_place(h, id, text_chunks) ==
    SetLinkIds(h, id, Concat([i \in 1..Len(text_chunks) |-> text_chunks[i].tags]))

\* TextBlock.segment.  The state of the loop: the heap, the Doc's counter,
\* allTextChunks and currentTextChunks.
flushChunks_peekId(s) ==
    IF s.currentTextChunks = <<>> THEN s
    ELSE LET t == Len(s.h) + 1
             h1 == Append(s.h, Tag("span",
                       [NoAttrs EXCEPT !.class = "cx-segment",
                                       !.data_segmentid = getNextId(s.id)]))
             modifiedTextChunks == add_common_tag(s.currentTextChunks, t)
             r == set_link_ids_in_place(h1, s.id, modifiedTextChunks)
         IN  [h |-> r.h, id |-> r.id,
              allTextChunks |-> s.allTextChunks \o modifiedTextChunks,
              currentTextChunks |-> <<>>]

flushChunks_evenEmpty(s) ==
    LET t == Len(s.h) + 1
        h1 == Append(s.h, Tag("span",
                  [NoAttrs EXCEPT !.class = "cx-segment",
                                  !.data_segmentid = getNextId(s.id)]))
        modifiedTextChunks == add_common_tag(s.currentTextChunks, t)
        r == set_link_ids_in_place(h1, s.id + 1, modifiedTextChunks)
    IN  [h |-> r.h, id |-> r.id,
         allTextChunks |-> s.allTextChunks \o modifiedTextChunks,
         currentTextChunks |-> <<>>]

flushChunks_withId(s) ==
    IF s.currentTextChunks = <<>> THEN s
    ELSE LET t == Len(s.h) + 1
             h1 == Append(s.h, Tag("span",
                       [NoAttrs EXCEPT !.class = "cx-segment",
                                       !.id = getNextId(s.id),
                                       !.data_segmentid = getNextId(s.id)]))
             modifiedTextChunks == add_common_tag(s.currentTextChunks, t)
             r == set_link_ids_in_place(h1, s.id + 1, modifiedTextChunks)
         IN  [h |-> r.h, id |-> r.id,
              allTextChunks |-> s.allTextChunks \o modifiedTextChunks,
              currentTextChunks |-> <<>>]

flushChunks(s) ==
    IF s.currentTextChunks = <<>> THEN s
    ELSE LET t == Len(s.h) + 1
             h1 == Append(s.h, Tag("span",
                       [NoAttrs EXCEPT !.class = "cx-segment",
                                       !.data_segmentid = getNextId(s.id)]))
             modifiedTextChunks == add_common_tag(s.currentTextChunks, t)
             r == set_link_ids_in_place(h1, s.id + 1, modifiedTextChunks)
         IN  [h |-> r.h, id |-> r.id,
              allTextChunks |-> s.allTextChunks \o modifiedTextChunks,
              currentTextChunks |-> <<>>]

\* String.prototype.slice(0, to) and slice(from): a negative index counts
\* from the end of the text, an index beyond the text is its end.
SliceIndex(text, k) ==
    IF k < 0 THEN (IF Len(text) + k < 0 THEN 0 ELSE Len(text) + k)
    ELSE IF k > Len(text) THEN Len(text) ELSE k

SliceTo(text, to) == SubSeq(text, 1, SliceIndex(text, to))
SliceFrom(text, from) == SubSeq(text, SliceIndex(text, from) + 1, Len(text))

\* The inner loop over the boundaries of one group.
RECURSIVE SplitChunk(_, _, _, _, _)
SplitChunk(s, offset, text_chunk, bs, j) ==
    IF j > Len(bs)
    THEN [s |-> [s EXCEPT !.currentTextChunks = Append(@, text_chunk)],
          offset |-> offset + Len(text_chunk.text)]
    ELSE LET relOffset == bs[j] - offset IN
         IF relOffset = 0
         THEN SplitChunk(flushChunks(s), offset, text_chunk, bs, j + 1)
         ELSE LET leftPart == TextChunk(SliceTo(text_chunk.text, relOffset),
                                        text_chunk.tags, NoContent)
                  rightPart == TextChunk(SliceFrom(text_chunk.text, relOffset),
                                         text_chunk.tags, text_chunk.inline_content)
              IN  SplitChunk(
                      flushChunks([s EXCEPT !.currentTextChunks = Append(@, leftPart)]),
                      offset + relOffset, rightPart, bs, j + 1)

RECURSIVE SegmentGroups(_, _, _, _)
SegmentGroups(s, offset, groups, i) ==
    IF i > Len(groups) THEN s
    ELSE LET r == SplitChunk(s, offset, groups[i].chunk, groups[i].boundaries, 1)
         IN  SegmentGroups(r.s, r.offset, groups, i + 1)

\* Returns the heap, the counter and the block; new TextBlock(allTextChunks)
\* leaves can_segment undefined (falsy).
segment_noLastFlush(h, id, blk, bs) ==
    LET s == SegmentGroups([h |-> h, id |-> id, allTextChunks |-> <<>>,
                            currentTextChunks |-> <<>>], 0,
                           get_chunk_boundary_groups(bs, blk.text_chunks), 1)
    IN  [h |-> s.h, id |-> s.id, block |-> TextBlock(s.allTextChunks, FALSE),
         getBoundariesCalls |-> 1]

segment_intoTransclusion(h, id, blk, bs) ==
    LET groups == get_chunk_boundary_groups(bs, blk.text_chunks)
        s == flushChunks(SegmentGroups(
                 [h |-> h, id |-> id, allTextChunks |-> <<>>,
                  currentTextChunks |-> <<>>], 0, groups, 1))
    IN  [h |-> s.h, id |-> s.id, block |-> TextBlock(s.allTextChunks, FALSE),
         getBoundariesCalls |-> 1]

\* getBoundariesCalls: how often the boundary function was called.
segment(h, id, blk, bs) ==
    LET rootItem == getRootItem(blk.text_chunks, 1) IN
    IF rootItem # NullTag /\ is_transclusion(h[rootItem])
    THEN [h |-> h, id |-> id, block |-> blk, getBoundariesCalls |-> 0]
    ELSE LET groups == get_chunk_boundary_groups(bs, blk.text_chunks)
             s == flushChunks(SegmentGroups(
                      [h |-> h, id |-> id, allTextChunks |-> <<>>,
                       currentTextChunks |-> <<>>], 0, groups, 1))
         IN  [h |-> s.h, id |-> s.id, block |-> TextBlock(s.allTextChunks, FALSE),
              getBoundariesCalls |-> 1]

setLinkIds(h, id, blk) ==
    LET r == set_link_ids_in_place(h, id, blk.text_chunks)
    IN  [h |-> r.h, id |-> r.id, block |-> blk]

\* -------------------------------------------------- TextBlock.translate_tags
Min(a, b) == IF a < b THEN a ELSE b

\* String.prototype.slice(from, to) for 0 <= from, with 0-based offsets.
Slice(text, from, to) == SubSeq(text, from + 1, Min(to, Len(text)))

\* The common prefix of the tag lists, tags compared by name.
CommonPrefix(h, commonTags, tags) ==
    LET short == SubSeq(commonTags, 1, Min(Len(commonTags), Len(tags)))
        same == {j \in 0..Len(short) :
                    \A k \in 1..j : h[short[k]].name = h[tags[k]].name}
    IN  SubSeq(short, 1, CHOOSE j \in same : \A k \in same : k <= j)

RECURSIVE CommonTagsFrom(_, _, _, _)
CommonTagsFrom(h, text_chunks, i, commonTags) ==
    IF i > Len(text_chunks) THEN commonTags
    ELSE CommonTagsFrom(h, text_chunks, i + 1,
                        CommonPrefix(h, commonTags, text_chunks[i].tags))

get_common_tags(h, blk) ==
    IF blk.text_chunks = <<>> THEN <<>>
    ELSE CommonTagsFrom(h, blk.text_chunks, 1, blk.text_chunks[1].tags)

\* The index of the (last) chunk at a char offset; 1 for a block without
\* chunks, where text_chunks[0] is undefined.
get_text_chunk_at(blk, charOffset) ==
    LET stops == {i \in 1..(Len(blk.text_chunks) - 1) :
                     blk.offsets[i + 1].start > charOffset}
    IN  IF stops = {} THEN (IF blk.text_chunks = <<>> THEN 1 ELSE Len(blk.text_chunks))
        ELSE CHOOSE i \in stops : \A k \in stops : i <= k

\* emptyTextChunks with emptyTextChunkOffsets: the chunks without text, by
\* offset, the offsets in increasing order.
EmptyTextChunks(blk) ==
    LET idx == {i \in 1..Len(blk.text_chunks) : Len(blk.text_chunks[i].text) = 0}
        offs == SortedSeq({blk.offsets[i].start : i \in idx})
    IN  [k \in 1..Len(offs) |->
            [offset |-> offs[k],
             chunks |-> SelectSeq(
                 [i \in 1..Len(blk.text_chunks) |->
                     [c |-> blk.text_chunks[i], at |-> blk.offsets[i].start,
                      empty |-> i \in idx]],
                 LAMBDA x : x.empty /\ x.at = offs[k])]]

pushEmptyTextChunks(acc, offset, chunks) ==
    acc \o [c \in 1..Len(chunks) |->
               [start |-> offset, length |-> 0, text_chunk |-> chunks[c].c]]

RECURSIVE PushEmptyGroups(_, _, _)
PushEmptyGroups(acc, offset, groups) ==
    IF groups = <<>> THEN acc
    ELSE PushEmptyGroups(pushEmptyTextChunks(acc, offset, Head(groups).chunks),
                         offset, Tail(groups))

\* The loop over the range mappings: s.text_chunks grows, s.empty shrinks.
RECURSIVE MapRanges(_, _, _, _, _)
MapRanges(blk, targetText, rangeMappings, i, s) ==
    IF i > Len(rangeMappings) THEN s
    ELSE LET rangeMapping == rangeMappings[i]
             sourceRangeEnd == rangeMapping.source.start + rangeMapping.source.length
             targetRangeEnd == rangeMapping.target.start + rangeMapping.target.length
             sourceTextChunk ==
                 blk.text_chunks[get_text_chunk_at(blk, rangeMapping.source.start)]
             text == Slice(targetText, rangeMapping.target.start, targetRangeEnd)
             inRange(g) == ~(g.offset < rangeMapping.source.start
                             \/ g.offset > sourceRangeEnd)
             pushed == Append(s.text_chunks,
                         [start |-> rangeMapping.target.start,
                          length |-> rangeMapping.target.length,
                          text_chunk |-> TextChunk(text, sourceTextChunk.tags,
                                                   sourceTextChunk.inline_content)])
         IN  MapRanges(blk, targetText, rangeMappings, i + 1,
                 [text_chunks |-> PushEmptyGroups(pushed, targetRangeEnd,
                                      SelectSeq(s.empty, inRange)),
                  empty |-> SelectSeq(s.empty, LAMBDA g : ~inRange(g))])

\* Array.prototype.sort by start (stable).
RECURSIVE SortByStart(_)
SortByStart(cs) ==
    IF cs = <<>> THEN <<>>
    ELSE LET rest == SortByStart(SubSeq(cs, 1, Len(cs) - 1))
             x == cs[Len(cs)]
             before == SelectSeq(rest, LAMBDA y : y.start <= x.start)
             after == SelectSeq(rest, LAMBDA y : y.start > x.start)
         IN  before \o <<x>> \o after

RECURSIVE FillGaps_noFill(_, _, _, _, _, _)
FillGaps_noFill(cs, i, pos, targetText, commonTags, acc) ==
    IF i > Len(cs) THEN [ok |-> TRUE, text_chunks |-> acc, pos |-> pos]
    ELSE LET text_chunk == cs[i] IN
         IF text_chunk.start < pos
         THEN [ok |-> FALSE, text_chunks |-> acc, pos |-> pos]
         ELSE FillGaps_noFill(cs, i + 1, text_chunk.start + text_chunk.length,
                              targetText, commonTags, Append(acc, text_chunk))

\* Fill the gaps between the sorted chunks with text under commonTags; an
\* overlap throws.
RECURSIVE FillGaps(_, _, _, _, _, _)
FillGaps(cs, i, pos, targetText, commonTags, acc) ==
    IF i > Len(cs) THEN [ok |-> TRUE, text_chunks |-> acc, pos |-> pos]
    ELSE LET text_chunk == cs[i] IN
         IF text_chunk.start < pos
         THEN [ok |-> FALSE, text_chunks |-> acc, pos |-> pos]
         ELSE FillGaps(cs, i + 1, text_chunk.start + text_chunk.length,
                       targetText, commonTags,
                       IF text_chunk.start > pos
                       THEN acc \o <<[start |-> pos,
                                      length |-> text_chunk.start - pos,
                                      text_chunk |-> TextChunk(
                                          Slice(targetText, pos, text_chunk.start),
                                          commonTags, NoContent)],
                                     text_chunk>>
                       ELSE Append(acc, text_chunk))

\* tail.match(/\s*$/)[0]: the whitespace at the end of a text.
RECURSIVE TailSpace(_)
TailSpace(text) ==
    IF text = <<>> \/ text[Len(text)] # " " THEN <<>>
    ELSE Append(TailSpace(SubSeq(text, 1, Len(text) - 1)), " ")

OverlapError == "Overlappping chunks"
TypeError == "TypeError"

\* Returns the block, or the error thrown.
translate_tags(h, blk, targetText, rangeMappings) ==
    IF rangeMappings # <<>> /\ blk.text_chunks = <<>>
    THEN [err |-> TypeError, block |-> NoBlock]
    ELSE
    LET mapped == MapRanges(blk, targetText, rangeMappings, 1,
                            [text_chunks |-> <<>>, empty |-> EmptyTextChunks(blk)])
        commonTags == get_common_tags(h, blk)
        filled == FillGaps(SortByStart(mapped.text_chunks), 1, 0, targetText,
                           commonTags, <<>>)
        rest == Slice(targetText, Min(filled.pos, Len(targetText)), Len(targetText))
        tailSpace == TailSpace(rest)
        tail == SubSeq(rest, 1, Len(rest) - Len(tailSpace))
        withTail == IF tail # <<>>
                    THEN Append(filled.text_chunks,
                                [start |-> filled.pos, length |-> Len(tail),
                                 text_chunk |-> TextChunk(tail, commonTags, NoContent)])
                    ELSE filled.text_chunks
        pos == filled.pos + Len(tail)
        withEmpty == PushEmptyGroups(withTail, pos, mapped.empty)
        all == IF tailSpace # <<>>
               THEN Append(withEmpty,
                           [start |-> pos, length |-> Len(tailSpace),
                            text_chunk |-> TextChunk(tailSpace, commonTags, NoContent)])
               ELSE withEmpty
    IN  IF ~filled.ok THEN [err |-> OverlapError, block |-> NoBlock]
        ELSE [err |-> NoError,
              block |-> TextBlock([i \in 1..Len(all) |-> all[i].text_chunk], FALSE)]

\* ----------------------------------------------------------------- Doc passes
\* Doc.wrap_sections: every open item without an id gets the next value of a
\* counter that starts at 0.  A Doc from the builder holds no items of
\* <section data-mw-section-id> tags (push_block_tag leaves them out).
RECURSIVE WrapItems(_, _, _, _)
WrapItems(h, items, i, idCounter) ==
    IF i > Len(items) THEN [h |-> h, id |-> idCounter]
    ELSE IF items[i].type = "open" /\ ~Has(h[items[i].tag].attributes, "id")
    THEN WrapItems([h EXCEPT ![items[i].tag].attributes.id = IdStr("", idCounter)],
                   items, i + 1, idCounter + 1)
    ELSE WrapItems(h, items, i + 1, idCounter)

wrap_sections(h, doc) ==
    LET r == WrapItems(h, doc.items, 1, 0)
    IN  [h |-> r.h, id |-> r.id, doc |-> doc]

\* Doc.segment: a segmentable text block is segmented, any other text block
\* gets its link ids; the ids come from the Doc's one counter.
RECURSIVE SegmentItems(_, _, _, _, _, _)
SegmentItems(h, id, items, i, getBoundaries, acc) ==
    IF i > Len(items) THEN [h |-> h, id |-> id, items |-> acc]
    ELSE IF items[i].type # "textblock"
    THEN SegmentItems(h, id, items, i + 1, getBoundaries, Append(acc, items[i]))
    ELSE LET blk == items[i].block
             r == IF blk.can_segment
                  THEN segment(h, id, blk,
                               SortedSeq({b \in getBoundaries :
                                             b <= Len(get_plain_text(blk))}))
                  ELSE setLinkIds(h, id, blk)
         IN  SegmentItems(r.h, r.id, items, i + 1, getBoundaries,
                          Append(acc, TextBlockItem(r.block)))

Doc_segment(h, id, doc, getBoundaries) ==
    LET r == SegmentItems(h, id, doc.items, 1, getBoundaries, <<>>)
    IN  [h |-> r.h, id |-> r.id, doc |-> [doc EXCEPT !.items = r.items]]

\* ---------------------------------------------------------------- get_html
\* The HTML is a sequence of tokens: open tag, close tag, text.
OpenToken(t) == [k |-> "open", tag |-> t]
CloseToken(t) == [k |-> "close", tag |-> t]
TextToken(text) == [k |-> "text", text |-> text]

\* utils.esc: & < > become numeric character references.
EscChar(c) ==
    IF c = "&" THEN <<"&", "#", "3", "8", ";">>
    ELSE IF c = "<" THEN <<"&", "#", "6", "0", ";">>
    ELSE IF c = ">" THEN <<"&", "#", "6", "2", ";">>
    ELSE <<c>>

esc(text) == Concat([i \in 1..Len(text) |-> EscChar(text[i])])

\* The highest matchTop + 1: how far the tag lists agree, by identity.
MatchTop(oldTags, tags) ==
    LET same == {j \in 0..Min(Len(oldTags), Len(tags)) :
                    \A q \in 1..j : oldTags[q] = tags[q]}
    IN  CHOOSE j \in same : \A q \in same : q <= j

CloseTokens(tags, from) ==
    [q \in 1..(Len(tags) - from) |-> CloseToken(tags[Len(tags) + 1 - q])]

OpenTokens(tags, from) ==
    [q \in 1..(Len(tags) - from) |-> OpenToken(tags[from + q])]

RECURSIVE Doc_get_html(_, _, _)
RECURSIVE ChunksHtml(_, _, _, _)

\* TextBlock.get_html, from chunk i on, oldTags being open.
ChunksHtml(h, text_chunks, i, oldTags) ==
    IF i > Len(text_chunks) THEN CloseTokens(oldTags, 0)
    ELSE LET text_chunk == text_chunks[i]
             matchTop == MatchTop(oldTags, text_chunk.tags)
             content == text_chunk.inline_content
         IN  CloseTokens(oldTags, matchTop)
             \o OpenTokens(text_chunk.tags, matchTop)
             \o <<TextToken(esc(text_chunk.text))>>
             \o (IF content.kind = "doc" THEN Doc_get_html(h, content.doc, 1)
                 ELSE IF content.kind = "tag"
                 THEN <<OpenToken(content.tag), CloseToken(content.tag)>>
                 ELSE <<>>)
             \o ChunksHtml(h, text_chunks, i + 1, text_chunk.tags)

\* Every chunk rendered on its own: its tags closed after it and opened again.
get_html_reopenAll(h, blk) ==
    Concat([i \in 1..Len(blk.text_chunks) |->
               ChunksHtml(h, <<blk.text_chunks[i]>>, 1, <<>>)])

get_html(h, blk) == ChunksHtml(h, blk.text_chunks, 1, <<>>)

\* Doc.get_html, from item i on; an inline empty tag that is an open item is
\* closed at once, the categories come last.
Doc_get_html(h, doc, i) ==
    IF i > Len(doc.items)
    THEN Concat([q \in 1..Len(doc.categories) |->
                    <<OpenToken(doc.categories[q]), CloseToken(doc.categories[q])>>])
    ELSE LET item == doc.items[i] IN
         (IF item.type = "open"
          THEN (IF is_inline_empty_tag(h[item.tag].name)
                THEN <<OpenToken(item.tag), CloseToken(item.tag)>>
                ELSE <<OpenToken(item.tag)>>)
          ELSE IF item.type = "close" THEN <<CloseToken(item.tag)>>
          ELSE IF item.type = "textblock" THEN get_html(h, item.block)
          ELSE <<TextToken(item.space)>>)
         \o Doc_get_html(h, doc, i + 1)

\* ------------------------------------------------- text blocks as inputs
\* The tag objects the input blocks refer to.
TagLink == Tag("a", [NoAttrs EXCEPT !.rel = "mw:WikiLink", !.href = "./Foo"])
TagTransclusion ==
    Tag("span", [NoAttrs EXCEPT !.typeof = "mw:Transclusion", !.about = "#mwt1"])
TagFragmentLink == Tag("a", [NoAttrs EXCEPT !.href = "./Bar", !.about = "#mwt1"])

BlockHeap == <<TagB, TagLink, TagTransclusion, TagFragmentLink, TagImg, TagRef>>

\* The sub-document of a reference: <sup typeof="mw:Extension/ref">a</sup>.
RefDoc ==
    [wrapper_tag |-> 6,
     items |-> <<OpenItem(6),
                 TextBlockItem(TextBlock(<<TextChunk(<<"a">>, <<>>, NoContent)>>, TRUE)),
                 CloseItem(6)>>,
     categories |-> <<>>]

ChunkTexts == {<<>>, <<"a", "a">>, <<" ">>}
ChunkTags == {<<>>, <<1>>, <<1, 2>>, <<3, 2>>, <<4>>}
ChunkContents == {NoContent, TagContent(5), DocContent(RefDoc)}

\* The builder puts inline content on a chunk of its own with empty text;
\* translate_tags makes chunks with both text and inline content.
ChunkInputs ==
    {TextChunk(text, tags, NoContent) : text \in ChunkTexts, tags \in ChunkTags}
    \cup {TextChunk(<<>>, tags, c) : tags \in {<<>>, <<1>>, <<3>>},
                                      c \in ChunkContents \ {NoContent}}
    \cup {TextChunk(<<"a", "a">>, <<1>>, TagContent(5))}

RECURSIVE SeqsUpTo(_, _)
SeqsUpTo(S, n) ==
    IF n = 0 THEN {<<>>}
    ELSE LET shorter == SeqsUpTo(S, n - 1)
         IN  shorter \cup {Append(q, x) : q \in shorter, x \in S}

BlockInputs == {TextBlock(cs, TRUE) : cs \in SeqsUpTo(ChunkInputs, MaxChunks)}

\* What a segmenter may return for a plain text: offsets in increasing order
\* within the text.
BoundaryLists(text) == {SortedSeq(B) : B \in SUBSET (0..Len(text))}

InitBlock ==
    /\ ParserInit /\ ~options.isolateSegments
    /\ heap = BlockHeap
    /\ stage = "block"
    /\ nextId = 0
    /\ textBlock \in BlockInputs
    /\ boundaries = <<>>
    /\ result = NoBlock
    /\ parsedDoc = Doc(NullTag)
    /\ segmentedDoc = Doc(NullTag)
    /\ html = <<>>
    /\ NoAux
    /\ translation = NoTranslation

SegmentBlock ==
    /\ stage = "block"
    /\ \E bs \in BoundaryLists(get_plain_text(textBlock)) :
          LET r == segment(heap, nextId, textBlock, bs)
          IN  /\ heap' = r.h /\ nextId' = r.id /\ result' = r.block /\ boundaries' = bs
              /\ returned' = [of |-> "segment",
                              getBoundariesCalls |-> r.getBoundariesCalls]
    /\ stage' = "segment"
    /\ UNCHANGED <<parserVars, builderVars, serverVars, normVars, adaptVars,
                   translation, textBlock, parsedDoc, segmentedDoc, html>>

\* Offsets as a boundary function may return them when nothing checks them:
\* not increasing, or beyond the plain text.
UncheckedBoundaryLists(text) ==
    {bs \in SeqsUpTo({0, 1, Len(text) + 1}, 2) :
        \/ \E i \in 1..Len(bs) : bs[i] > Len(text)
        \/ \E i \in 1..(Len(bs) - 1) : bs[i] >= bs[i + 1]}

\* TextBlock.segment with such a boundary function.
SegmentUnchecked ==
    /\ stage = "block"
    /\ \E bs \in UncheckedBoundaryLists(get_plain_text(textBlock)) :
          LET r == segment(heap, nextId, textBlock, bs)
          IN  /\ heap' = r.h /\ nextId' = r.id /\ result' = r.block /\ boundaries' = bs
              /\ returned' = [of |-> "segment",
                              getBoundariesCalls |-> r.getBoundariesCalls]
    /\ stage' = "segment_unchecked"
    /\ UNCHANGED <<parserVars, builderVars, serverVars, normVars, adaptVars,
                   translation, textBlock, parsedDoc, segmentedDoc, html>>

SetLinkIdsBlock ==
    /\ stage = "block"
    /\ LET r == setLinkIds(heap, nextId, textBlock)
       IN  heap' = r.h /\ nextId' = r.id /\ result' = r.block
    /\ stage' = "setLinkIds"
    /\ UNCHANGED <<parserVars, auxVars, translation, textBlock, boundaries, parsedDoc, segmentedDoc, html>>

\* Translations: a target text and mappings of source ranges to target ranges.
TargetTexts == {<<"a", "a", "a">>, <<"a", "a", " ">>}

RangeMappingInputs ==
    {m \in {[source |-> [start |-> ss, length |-> 2],
             target |-> [start |-> ts, length |-> tl]] :
                ss \in {0, 2}, ts \in {0, 1, 2}, tl \in {1, 2}} :
        m.target.start + m.target.length <= 3}

TranslateChunks ==
    {TextChunk(<<"a", "a">>, tags, NoContent) : tags \in {<<>>, <<1, 2>>}}
    \cup {TextChunk(<<>>, <<>>, TagContent(5)), TextChunk(<<>>, <<1>>, DocContent(RefDoc))}

TranslateInputs == {TextBlock(cs, TRUE) : cs \in SeqsUpTo(TranslateChunks, MaxChunks)}

TranslateTags ==
    /\ stage = "block"
    /\ textBlock \in TranslateInputs
    /\ \E targetText \in TargetTexts,
          rangeMappings \in SeqsUpTo(RangeMappingInputs, MaxMappings) :
          LET r == translate_tags(heap, textBlock, targetText, rangeMappings)
          IN  /\ result' = r.block /\ error' = r.err
              /\ translation' = [targetText |-> targetText,
                                 rangeMappings |-> rangeMappings]
    /\ stage' = "translate_tags"
    /\ UNCHANGED <<heap, allTags, contexts, builders, options, nEvents, lastEvent,
                   fed, nextId, textBlock, boundaries, parsedDoc, segmentedDoc, html,
                   auxVars>>

\* The identity mapping of a block: the range of each chunk with text mapped
\* to itself, in the order of the chunks.
IdentityMapping(blk) ==
    LET idx == SelectSeq([i \in 1..Len(blk.text_chunks) |-> i],
                         LAMBDA i : Len(blk.text_chunks[i].text) > 0)
    IN  [k \in 1..Len(idx) |->
            LET range == [start |-> blk.offsets[idx[k]].start,
                          length |-> blk.offsets[idx[k]].length]
            IN  [source |-> range, target |-> range]]

\* b.translate_tags(b.get_plain_text(), identity mapping)
TranslateIdentity ==
    /\ stage = "block"
    /\ LET r == translate_tags(heap, textBlock, get_plain_text(textBlock),
                               IdentityMapping(textBlock))
       IN  result' = r.block /\ error' = r.err
    /\ translation' = [targetText |-> get_plain_text(textBlock),
                       rangeMappings |-> IdentityMapping(textBlock)]
    /\ stage' = "translate_identity"
    /\ UNCHANGED <<heap, allTags, contexts, builders, options, nEvents, lastEvent,
                   fed, nextId, textBlock, boundaries, parsedDoc, segmentedDoc, html,
                   auxVars>>

NextBlock ==
    \/ SegmentBlock \/ SegmentUnchecked \/ SetLinkIdsBlock
    \/ TranslateTags \/ TranslateIdentity

SpecBlock == InitBlock /\ [][NextBlock]_vars

\* ------------------------------------------------------ documents as inputs
\* A parsed document <body> block ... block </body>, block k being
\* <p>text block</p> or <div id="N">text block</div>.  The heap holds the
\* shared inline tags, then body, then a block tag and a link per block.
BodyRef == Len(BlockHeap) + 1
BlockTagRef(k) == BodyRef + k
LinkRef(k) == BodyRef + MaxBlocks + k

DocHeap(n, presetIds) ==
    BlockHeap \o <<Tag("body", NoAttrs)>>
    \o [k \in 1..MaxBlocks |->
           IF k <= n /\ presetIds[k] >= 0
           THEN Tag("div", [NoAttrs EXCEPT !.id = IdStr("", presetIds[k])])
           ELSE TagP]
    \o [k \in 1..MaxBlocks |-> TagLink]

\* The text blocks of block k; its link is the tag object LinkRef(k).
DocBlocks(k) ==
    LET l == LinkRef(k)
        aa == <<"a", "a">>
        plain == <<TextChunk(aa, <<>>, NoContent)>>
        link == <<TextChunk(aa, <<l>>, NoContent),
                  TextChunk(<<>>, <<l>>, TagContent(5)),
                  TextChunk(aa, <<l>>, NoContent)>>
        transcluded == <<TextChunk(aa, <<3, l>>, NoContent)>>
        fragment == <<TextChunk(aa, <<4>>, NoContent), TextChunk(aa, <<1, l>>, NoContent)>>
        reference == <<TextChunk(aa, <<>>, NoContent),
                       TextChunk(<<>>, <<>>, DocContent(RefDoc))>>
    IN  {TextBlock(cs, TRUE) : cs \in {plain, link, transcluded, fragment, reference}}
        \cup {TextBlock(cs, FALSE) : cs \in {link, transcluded}}

\* At most one block tag comes with an id of its own.
PresetIds(n) ==
    {ids \in [1..n -> {-1, 0, MaxBlocks}] :
        Cardinality({k \in 1..n : ids[k] >= 0}) <= 1}

DocOf(blocks) ==
    [wrapper_tag |-> NullTag,
     items |-> <<OpenItem(BodyRef)>>
               \o Concat([k \in 1..Len(blocks) |->
                             <<OpenItem(BlockTagRef(k)), TextBlockItem(blocks[k]),
                               CloseItem(BlockTagRef(k))>>])
               \o <<CloseItem(BodyRef)>>,
     categories |-> <<>>]

BoundaryOffsets == 1..3

InitDoc ==
    /\ ParserInit /\ ~options.isolateSegments
    /\ \E n \in 1..MaxBlocks :
          /\ \E presetIds \in PresetIds(n) : heap = DocHeap(n, presetIds)
          /\ \E blocks \in [1..n -> UNION {DocBlocks(k) : k \in 1..n}] :
                /\ \A k \in 1..n : blocks[k] \in DocBlocks(k)
                /\ parsedDoc = DocOf(blocks)
    /\ stage = "parse"
    /\ nextId = 0
    /\ textBlock = NoBlock /\ boundaries = <<>> /\ result = NoBlock
    /\ segmentedDoc = Doc(NullTag)
    /\ html = <<>>
    /\ NoAux
    /\ translation = NoTranslation

\* tet: parsedDoc = parsedDoc.wrapSections()
WrapSections ==
    /\ stage = "parse"
    /\ LET r == wrap_sections(heap, parsedDoc)
       IN  heap' = r.h /\ nextId' = r.id /\ parsedDoc' = r.doc
    /\ stage' = "wrapSections"
    /\ UNCHANGED <<parserVars, auxVars, translation, textBlock, boundaries, result, segmentedDoc, html>>

\* tet: segmentedDoc = new CXSegmenter().segment(parsedDoc, "en")
SegmentDocWith(segmenters) ==
    /\ stage = "wrapSections"
    /\ \E getBoundaries \in segmenters :
          LET r == Doc_segment(heap, nextId, parsedDoc, getBoundaries)
          IN  /\ heap' = r.h /\ nextId' = r.id /\ segmentedDoc' = r.doc
              /\ boundaries' = SortedSeq(getBoundaries)
    /\ stage' = "segment"
    /\ UNCHANGED <<parserVars, auxVars, translation, textBlock, result, parsedDoc, html>>

SegmentDoc == SegmentDocWith(SUBSET BoundaryOffsets)

\* tet: result = segmentedDoc.get_html()
GetHtml ==
    /\ stage = "segment"
    /\ html' = Doc_get_html(heap, segmentedDoc, 1)
    /\ stage' = "get_html"
    /\ UNCHANGED <<heap, parserVars, auxVars, translation, nextId, textBlock, boundaries, result,
                   parsedDoc, segmentedDoc>>

NextDoc == WrapSections \/ SegmentDoc \/ GetHtml

SpecDoc == InitDoc /\ [][NextDoc]_vars

\* ------------------------------------------------------------------- tet
\* One call of tet: parser.write feeds the events of the input to the
\* parser, then the passes run on parser.builder.doc.  An exception thrown by
\* a handler leaves write, and tet, at once.
MaxTetEvents == 4

InitTet ==
    /\ heap = <<>>
    /\ ParserInit /\ ~options.isolateSegments
    /\ stage = "write"
    /\ nextId = 0
    /\ textBlock = NoBlock /\ boundaries = <<>> /\ result = NoBlock
    /\ translation = NoTranslation
    /\ parsedDoc = Doc(NullTag) /\ segmentedDoc = Doc(NullTag)
    /\ html = <<>>
    /\ NoAux

Writing == stage = "write" /\ nEvents < MaxTetEvents

\* The tags of the documents given to tet.
TetTags == {TagP, TagB, TagRef, TagImg, TagFigure, TagVideo, TagScript}

WriteOpenTag ==
    /\ Writing
    /\ \E tag \in TetTags : on_open_tag(tag)
    /\ UNCHANGED <<passVars, auxVars>>
WriteCloseTag == Writing /\ CloseTag
WriteText == Writing /\ Text
WriteScript == Writing /\ Script

EndWrite_ignoreError ==
    /\ stage = "write"
    /\ lastEvent \in {"none", "open", "close"}
    /\ parsedDoc' = Cur(builders).doc
    /\ stage' = "parse"
    /\ UNCHANGED <<heap, parserVars, auxVars, translation, nextId, textBlock,
                   boundaries, result, segmentedDoc, html>>

\* parser.write(source_HTML) returns; parsedDoc = parser.builder.doc.  The
\* SAX parser reports a text only when it reads the tag after it.
EndWrite ==
    /\ stage = "write"
    /\ error = NoError
    /\ lastEvent \in {"none", "open", "close"}
    /\ parsedDoc' = Cur(builders).doc
    /\ stage' = "parse"
    /\ UNCHANGED <<heap, parserVars, auxVars, translation, nextId, textBlock,
                   boundaries, result, segmentedDoc, html>>

\* The segmenter of one language: no boundary, or one after the first
\* character of a text.
TetSegmenters == {{}, {1}}

SegmentTet == SegmentDocWith(TetSegmenters)

NextTet ==
    \/ WriteOpenTag \/ WriteCloseTag \/ WriteText \/ WriteScript
    \/ EndWrite \/ WrapSections \/ SegmentTet \/ GetHtml

SpecTet == InitTet /\ [][NextTet]_vars

\* ------------------------------------------------------- the Builder's methods
\* A Builder on its own: its methods called in any order, with any
\* can_segment.  nEvents counts the calls.
MaxCalls == 5

TagCategory == Tag("link", [NoAttrs EXCEPT !.rel = "mw:PageProp/Category"])

\* <section data-mw-section-id="0"> and, nested in it, a second section.
TagOuterSection == Tag("section", [NoAttrs EXCEPT !.data_mw_section_id = "0"])
TagInnerSection == Tag("section", [NoAttrs EXCEPT !.data_mw_section_id = "1"])

BuilderHeap ==
    <<TagP, TagExtLink, TagImg, TagCategory, TagB, TagOuterSection, TagInnerSection>>

SectionTags == {6, 7}

\* The inline annotation tags a caller pushes: the external link and <b>.
AnnotationTags == {2, 5}

InlineContents == {TagContent(3), TagContent(4)}

BuilderTexts == {<<"a">>, <<" ">>}

Call(method, cs) == [method |-> method, can_segment |-> cs]

\* The history after a call that may have run finish_text_block: the items
\* added to the doc get the calls behind them, a flushed block leaves none
\* pending.
CallsAfter(b) == IF b.text_chunks = <<>> THEN <<>> ELSE calls

BlockCallsAfter(b) ==
    blockCalls \o [k \in 1..(Len(b.doc.items) - Len(blockCalls)) |->
                      IF b.doc.items[Len(blockCalls) + k].type = "textblock"
                      THEN calls ELSE <<>>]

InitBuilder ==
    /\ ParserInit /\ ~options.isolateSegments
    /\ heap = BuilderHeap
    /\ stage = "builder"
    /\ nextId = 0
    /\ textBlock = NoBlock /\ boundaries = <<>> /\ result = NoBlock
    /\ parsedDoc = Doc(NullTag) /\ segmentedDoc = Doc(NullTag)
    /\ html = <<>>
    /\ NoAux
    /\ translation = NoTranslation

\* What every call of a Builder method does besides its own effect.
BuilderCall(b, err) ==
    /\ error = NoError
    /\ nEvents < MaxCalls
    /\ nEvents' = nEvents + 1
    /\ builders' = <<b>>
    /\ error' = err
    /\ UNCHANGED <<heap, allTags, contexts, options, lastEvent, fed, passVars,
                   serverVars, normVars, adaptVars, callVars>>

PushBlockTagOf(tag) ==
    LET b == push_block_tag(heap, Cur(builders), tag)
    IN  /\ BuilderCall(b, NoError)
        /\ calls' = CallsAfter(b)
        /\ blockCalls' = BlockCallsAfter(b)

PushBlockTag == PushBlockTagOf(1)

CloseBlockNames == {"p", "div"}

PopBlockTagOf(tag_name) ==
    LET r == pop_block_tag(heap, Cur(builders), tag_name)
    IN  /\ BuilderCall(r.b, r.err)
        /\ calls' = CallsAfter(r.b)
        /\ blockCalls' = BlockCallsAfter(r.b)

PopBlockTag == \E tag_name \in CloseBlockNames : PopBlockTagOf(tag_name)

FinishTextBlock ==
    LET b == finish_text_block(Cur(builders))
    IN  /\ BuilderCall(b, NoError)
        /\ calls' = CallsAfter(b)
        /\ blockCalls' = BlockCallsAfter(b)

PushInlineAnnotationTag ==
    /\ \E tag \in AnnotationTags :
          BuilderCall(push_inline_annotation_tag(Cur(builders), tag), NoError)
    /\ UNCHANGED builderVars

\* When the empty annotation is replaced by a sub-document, the chunks it
\* covered are dropped and the method's own add_inline_content call, made
\* without can_segment, adds the last chunk.
CloseInlineNames == {"a", "b"}

PopInlineAnnotationTagOf(tag_name) ==
    LET b == Cur(builders)
        r == pop_inline_annotation_tag(heap, b, tag_name)
    IN  /\ BuilderCall(r.b, r.err)
        /\ calls' = IF r.b.text_chunks = b.text_chunks THEN calls
                    ELSE Append(SubSeq(calls, 1, Len(r.b.text_chunks) - 1),
                                Call("add_inline_content", FALSE))
        /\ UNCHANGED blockCalls

PopInlineAnnotationTag ==
    \E tag_name \in CloseInlineNames : PopInlineAnnotationTagOf(tag_name)

AddTextChunk ==
    \E text \in BuilderTexts, cs \in BOOLEAN :
        /\ BuilderCall(add_text_chunk(Cur(builders), text, cs), NoError)
        /\ calls' = Append(calls, Call("add_text_chunk", cs))
        /\ UNCHANGED blockCalls

AddInlineContentOf(content, cs) ==
    /\ BuilderCall(add_inline_content(heap, Cur(builders), content, cs), NoError)
    /\ calls' = IF isCategory(heap[content.tag]) THEN calls
                ELSE Append(calls, Call("add_inline_content", cs))
    /\ UNCHANGED blockCalls

AddInlineContent ==
    \E content \in InlineContents, cs \in BOOLEAN : AddInlineContentOf(content, cs)

NextBuilder ==
    \/ PushBlockTag \/ PopBlockTag \/ FinishTextBlock
    \/ PushInlineAnnotationTag \/ PopInlineAnnotationTag
    \/ AddTextChunk \/ AddInlineContent

SpecBuilder == InitBuilder /\ [][NextBuilder]_vars

\* A Builder fed with sections: the section tags, paragraphs and text.
PushSectionTag == \E tag \in SectionTags : PushBlockTagOf(tag)

PopSectionTag == PopBlockTagOf("section")

NextSection ==
    \/ PushSectionTag \/ PopSectionTag
    \/ PushBlockTag \/ PopBlockTag \/ AddTextChunk

SpecSection == InitBuilder /\ [][NextSection]_vars

\* A Builder fed with category links, as inline content and as block tags.
PushCategoryTag == PushBlockTagOf(4)

PopCategoryTag == PopBlockTagOf("link")

NextCategory ==
    \/ AddInlineContent \/ AddTextChunk \/ FinishTextBlock
    \/ PushCategoryTag \/ PopCategoryTag

SpecCategory == InitBuilder /\ [][NextCategory]_vars

\* A Builder fed with inline annotations and text around block boundaries.
NextAnnotation ==
    \/ PushBlockTag \/ PopBlockTag \/ FinishTextBlock
    \/ PushInlineAnnotationTag \/ PopInlineAnnotationTag
    \/ AddTextChunk

SpecAnnotation == InitBuilder /\ [][NextAnnotation]_vars

\* A Builder fed with every call that writes is_block_segmentable.
NextSegmentable ==
    \/ AddTextChunk \/ AddInlineContent \/ FinishTextBlock
    \/ PushInlineAnnotationTag \/ PopInlineAnnotationTag

SpecSegmentable == InitBuilder /\ [][NextSegmentable]_vars

\* ------------------------------------------------ TextBlock.get_common_tags
\* Blocks whose chunks carry tag stacks of BlockHeap: 2 and 4 are two
\* different <a> tags, 1 is <b>.
CommonTagStacks == {<<>>, <<1>>, <<2>>, <<4>>, <<1, 2>>, <<1, 4>>, <<2, 1>>}

CommonTagInputs ==
    {TextBlock(cs, TRUE) :
        cs \in SeqsUpTo({TextChunk(<<"a">>, tags, NoContent) : tags \in CommonTagStacks},
                        MaxChunks)}

InitCommonTags ==
    /\ ParserInit /\ ~options.isolateSegments
    /\ heap = BlockHeap
    /\ stage = "block"
    /\ nextId = 0
    /\ textBlock \in CommonTagInputs
    /\ boundaries = <<>>
    /\ result = NoBlock
    /\ parsedDoc = Doc(NullTag)
    /\ segmentedDoc = Doc(NullTag)
    /\ html = <<>>
    /\ NoAux
    /\ translation = NoTranslation

\* A call of textBlock.get_common_tags().
GetCommonTags ==
    /\ stage = "block"
    /\ returned' = [of |-> "get_common_tags", value |-> get_common_tags(heap, textBlock)]
    /\ stage' = "get_common_tags"
    /\ UNCHANGED <<heap, parserVars, nextId, textBlock, boundaries, result, translation,
                   parsedDoc, segmentedDoc, html, builderVars, serverVars, normVars,
                   adaptVars>>

SpecCommonTags == InitCommonTags /\ [][GetCommonTags]_vars

\* ----------------------------------------------------- TextBlock.get_html
\* Chunks of the blocks rendered: 2 and 4 are two different <a> tags, 1 is
\* <b>, 5 an inline empty tag.
MaxHtmlChunks == 3

HtmlTagStacks == {<<>>, <<1>>, <<2>>, <<1, 2>>, <<2, 1>>, <<1, 4>>}

HtmlChunks ==
    {TextChunk(<<"a">>, tags, NoContent) : tags \in HtmlTagStacks}
    \cup {TextChunk(<<>>, tags, TagContent(5)) : tags \in {<<>>, <<1>>}}
    \cup {TextChunk(<<>>, tags, DocContent(RefDoc)) : tags \in {<<>>, <<1, 2>>}}

HtmlInputs == {TextBlock(cs, TRUE) : cs \in SeqsUpTo(HtmlChunks, MaxHtmlChunks)}

InitHtml ==
    /\ ParserInit /\ ~options.isolateSegments
    /\ heap = BlockHeap
    /\ stage = "block"
    /\ nextId = 0
    /\ textBlock \in HtmlInputs
    /\ boundaries = <<>>
    /\ result = NoBlock
    /\ parsedDoc = Doc(NullTag)
    /\ segmentedDoc = Doc(NullTag)
    /\ html = <<>>
    /\ NoAux
    /\ translation = NoTranslation

\* A call of textBlock.get_html().
BlockGetHtml ==
    /\ stage = "block"
    /\ html' = get_html(heap, textBlock)
    /\ stage' = "block_html"
    /\ UNCHANGED <<heap, parserVars, nextId, textBlock, boundaries, result, translation,
                   parsedDoc, segmentedDoc, auxVars>>

SpecHtml == InitHtml /\ [][BlockGetHtml]_vars

\* ------------------------------------------------------- TextBlock.adapt
\* A promise is pending, fulfilled or rejected; an adapter's promise is
\* settled by the adapter, the others by the microtasks of the call.
Pending == "pending"
Fulfilled == "fulfilled"
Rejected == "rejected"

\* data-cx values: '{}', '{"adapted":false}' and '{"adapted":true}'.
EmptyDataCX == "{}"
NotAdapted == "{adapted:false}"
Adapted == "{adapted:true}"

TagAdaptedLink == Tag("a", [NoAttrs EXCEPT !.rel = "mw:WikiLink", !.data_cx = Adapted])
TagEmptyCXLink == Tag("a", [NoAttrs EXCEPT !.rel = "mw:WikiLink", !.data_cx = EmptyDataCX])
TagAdaptedImg == Tag("img", [NoAttrs EXCEPT !.data_cx = Adapted])

AdaptHeap == BlockHeap \o <<TagAdaptedLink, TagEmptyCXLink, TagAdaptedImg>>

\* What the adaptation of a sub-document resolves with.
AdaptedRefDoc ==
    [RefDoc EXCEPT !.items[2] =
        TextBlockItem(TextBlock(<<TextChunk(<<"a">>, <<7>>, NoContent)>>, TRUE))]

AdaptChunkInputs ==
    {TextChunk(<<"a", "a">>, tags, NoContent) : tags \in {<<>>, <<1, 2>>, <<4, 7, 8>>}}
    \cup {TextChunk(<<>>, <<>>, TagContent(5)),
          TextChunk(<<>>, <<>>, DocContent(RefDoc))}

AdaptInputs == {TextBlock(cs, TRUE) : cs \in SeqsUpTo(AdaptChunkInputs, MaxChunks)}

\* getAdapter: the tags it has an adapter for.
AdapterSets == {{}, {2, 4, 5, 7, 8}}

\* Promise.all over promises in the given states.
PromiseAll_allSettled(states) ==
    IF \E s \in states : s = Pending THEN Pending ELSE Fulfilled

PromiseAll(states) ==
    IF \E s \in states : s = Rejected THEN Rejected
    ELSE IF \A s \in states : s = Fulfilled THEN Fulfilled
    ELSE Pending

AdapterPromise(source) == [source |-> source, state |-> Pending, value |-> NoContent]

\* The loop without the data-cx mark.
RECURSIVE AdaptTags_noMark(_, _, _, _, _, _)
AdaptTags_noMark(h, tags, j, adapters, ps, deps) ==
    IF j > Len(tags) THEN [h |-> h, ps |-> ps, deps |-> deps]
    ELSE LET tag == tags[j]
             dataCX == h[tag].attributes.data_cx
         IN  IF dataCX # U /\ dataCX # EmptyDataCX
             THEN AdaptTags_noMark(h, tags, j + 1, adapters, ps, deps)
             ELSE IF tag \in adapters /\ ~is_transclusion_fragment(h[tag])
             THEN AdaptTags_noMark(h, tags, j + 1, adapters,
                                   Append(ps, AdapterPromise("tags")),
                                   deps \cup {Len(ps) + 1})
             ELSE AdaptTags_noMark(h, tags, j + 1, adapters, ps, deps)

\* tags.forEach of adapt, from tags[j] on: the heap with the tags marked, the
\* adapter promises so far and the indices of those made for this chunk.
RECURSIVE AdaptTags(_, _, _, _, _, _)
AdaptTags(h, tags, j, adapters, ps, deps) ==
    IF j > Len(tags) THEN [h |-> h, ps |-> ps, deps |-> deps]
    ELSE LET tag == tags[j]
             dataCX == h[tag].attributes.data_cx
         IN  IF dataCX # U /\ dataCX # EmptyDataCX
             THEN AdaptTags(h, tags, j + 1, adapters, ps, deps)
             ELSE IF tag \in adapters /\ ~is_transclusion_fragment(h[tag])
             THEN AdaptTags([h EXCEPT ![tag].attributes.data_cx = NotAdapted],
                            tags, j + 1, adapters,
                            Append(ps, AdapterPromise("tags")),
                            deps \cup {Len(ps) + 1})
             ELSE AdaptTags(h, tags, j + 1, adapters, ps, deps)

\* The loop as it would be with await: the pass ends at the first chunk
\* that started a request.
RECURSIVE AdaptChunks_await(_, _, _, _, _, _)
AdaptChunks_await(h, chunks, i, adapters, ps, tcs) ==
    IF i > Len(chunks) THEN [h |-> h, ps |-> ps, tcs |-> tcs]
    ELSE LET chunk == chunks[i]
             r == AdaptTags(h, chunk.tags, 1, adapters, ps, {})
             tcs1 == Append(tcs, [kind |-> "all", deps |-> r.deps, chunk |-> i,
                                  state |-> Pending])
             c == chunk.inline_content
             hasPromise ==
                 \/ c.kind = "doc"
                 \/ /\ c.kind = "tag"
                    /\ c.tag \in adapters
                    /\ ~is_transclusion_fragment(h[c.tag])
         IN  IF hasPromise
             THEN [h |-> r.h, ps |-> Append(r.ps, AdapterPromise(c.kind)),
                   tcs |-> Append(tcs1, [kind |-> "then", deps |-> {Len(r.ps) + 1},
                                         chunk |-> i, state |-> Pending])]
             ELSE IF r.ps # <<>> THEN [h |-> r.h, ps |-> r.ps, tcs |-> tcs1]
             ELSE AdaptChunks_await(r.h, chunks, i + 1, adapters, r.ps, tcs1)

\* text_chunks.forEach of adapt, from chunk i on.
RECURSIVE AdaptChunks(_, _, _, _, _, _)
AdaptChunks(h, chunks, i, adapters, ps, tcs) ==
    IF i > Len(chunks) THEN [h |-> h, ps |-> ps, tcs |-> tcs]
    ELSE LET chunk == chunks[i]
             r == AdaptTags(h, chunk.tags, 1, adapters, ps, {})
             tcs1 == Append(tcs, [kind |-> "all", deps |-> r.deps, chunk |-> i,
                                  state |-> Pending])
             c == chunk.inline_content
             hasPromise ==
                 \/ c.kind = "doc"
                 \/ /\ c.kind = "tag"
                    /\ c.tag \in adapters
                    /\ ~is_transclusion_fragment(h[c.tag])
         IN  IF hasPromise
             THEN AdaptChunks(r.h, chunks, i + 1, adapters,
                              Append(r.ps, AdapterPromise(c.kind)),
                              Append(tcs1, [kind |-> "then", deps |-> {Len(r.ps) + 1},
                                            chunk |-> i, state |-> Pending]))
             ELSE AdaptChunks(r.h, chunks, i + 1, adapters, r.ps, tcs1)

InitAdapt ==
    /\ ParserInit /\ ~options.isolateSegments
    /\ heap = AdaptHeap
    /\ stage = "adapt"
    /\ nextId = 0
    /\ textBlock \in AdaptInputs
    /\ boundaries = <<>>
    /\ result = NoBlock
    /\ parsedDoc = Doc(NullTag)
    /\ segmentedDoc = Doc(NullTag)
    /\ html = <<>>
    /\ NoAux
    /\ translation = NoTranslation

AdaptStep ==
    UNCHANGED <<parserVars, nextId, boundaries, result, translation, parsedDoc,
                segmentedDoc, html, builderVars, serverVars, normVars, callVars>>

\* The synchronous part of TextBlock.adapt(getAdapter).
Adapt ==
    /\ stage = "adapt"
    /\ \E adapters \in AdapterSets :
         LET r == AdaptChunks(heap, textBlock.text_chunks, 1, adapters, <<>>, <<>>)
         IN  /\ heap' = r.h
             /\ adaptation' = [adapterPromises |-> r.ps, textChunkPromises |-> r.tcs,
                               all |-> Pending, returned |-> Pending]
             /\ returned' = [of |-> "adapt", getAdapter |-> adapters]
    /\ stage' = "adapting"
    /\ UNCHANGED <<textBlock, parserVars, nextId, boundaries, result, translation,
                   parsedDoc, segmentedDoc, html, builderVars, serverVars, normVars>>

\* What an adapter, or the adaptation of a sub-document, can resolve with.
AdaptedValues(source) ==
    IF source = "tags" THEN {TagContent(7)}
    ELSE IF source = "doc" THEN {DocContent(AdaptedRefDoc)}
    ELSE {TagContent(9)}

\* A promise of adapter.adapt() or of the sub-document's adapt settles.
AdapterSettles ==
    /\ stage = "adapting"
    /\ \E i \in DOMAIN adaptation.adapterPromises :
         /\ adaptation.adapterPromises[i].state = Pending
         /\ \/ \E v \in AdaptedValues(adaptation.adapterPromises[i].source) :
                  adaptation' = [adaptation EXCEPT
                      !.adapterPromises[i].state = Fulfilled,
                      !.adapterPromises[i].value = v]
            \/ adaptation' = [adaptation EXCEPT !.adapterPromises[i].state = Rejected]
    /\ UNCHANGED <<heap, stage, textBlock>>
    /\ AdaptStep

DepStates(tc) == {adaptation.adapterPromises[i].state : i \in tc.deps}

\* Promise.all(tagPromises) of a chunk settles.
TagPromisesSettle ==
    /\ stage = "adapting"
    /\ \E k \in DOMAIN adaptation.textChunkPromises :
         LET tc == adaptation.textChunkPromises[k]
         IN  /\ tc.kind = "all" /\ tc.state = Pending
             /\ PromiseAll(DepStates(tc)) # Pending
             /\ adaptation' = [adaptation EXCEPT
                     !.textChunkPromises[k].state = PromiseAll(DepStates(tc))]
    /\ UNCHANGED <<heap, stage, textBlock>>
    /\ AdaptStep

\* adaptPromise.then(...): the callback stores the adapted inline content;
\* a rejection passes through.
InlineContentThen ==
    /\ stage = "adapting"
    /\ \E k \in DOMAIN adaptation.textChunkPromises :
         LET tc == adaptation.textChunkPromises[k]
             p == adaptation.adapterPromises[CHOOSE i \in tc.deps : TRUE]
         IN  /\ tc.kind = "then" /\ tc.state = Pending
             /\ p.state # Pending
             /\ adaptation' = [adaptation EXCEPT !.textChunkPromises[k].state = p.state]
             /\ textBlock' = IF p.state = Fulfilled
                             THEN [textBlock EXCEPT
                                      !.text_chunks[tc.chunk].inline_content = p.value]
                             ELSE textBlock
    /\ UNCHANGED <<heap, stage>>
    /\ AdaptStep

TextChunkStates ==
    {adaptation.textChunkPromises[k].state : k \in DOMAIN adaptation.textChunkPromises}

\* Promise.all(textChunkPromises) settles.
AllSettles ==
    /\ stage = "adapting"
    /\ adaptation.all = Pending
    /\ PromiseAll(TextChunkStates) # Pending
    /\ adaptation' = [adaptation EXCEPT !.all = PromiseAll(TextChunkStates)]
    /\ UNCHANGED <<heap, stage, textBlock>>
    /\ AdaptStep

\* .then(() => this): the promise adapt returned settles; fulfilled, its
\* value is the block.
ReturnedSettles ==
    /\ stage = "adapting"
    /\ adaptation.returned = Pending
    /\ adaptation.all # Pending
    /\ adaptation' = [adaptation EXCEPT !.returned = adaptation.all]
    /\ result' = IF adaptation.all = Fulfilled THEN textBlock ELSE result
    /\ UNCHANGED <<heap, stage, textBlock, parserVars, nextId, boundaries,
                   translation, parsedDoc, segmentedDoc, html, builderVars,
                   serverVars, normVars, callVars>>

Microtasks == TagPromisesSettle \/ InlineContentThen \/ AllSettles \/ ReturnedSettles

NextAdapt == Adapt \/ AdapterSettles \/ Microtasks

\* The job queue runs every reaction of a settled promise; nothing makes an
\* adapter settle.
SpecAdapt == InitAdapt /\ [][NextAdapt]_vars /\ WF_vars(Microtasks)

\* ---------------------------------------------------------------- Normalizer
\* The Normalizer's handlers, called with any events, and next to it the
\* Builder's methods: the run is one of the two.
NormalizerCall(n, err) ==
    /\ error = NoError
    /\ nEvents < MaxCalls
    /\ nEvents' = nEvents + 1
    /\ normalizer' = n
    /\ error' = err
    /\ UNCHANGED <<heap, allTags, contexts, builders, options, lastEvent, fed,
                   passVars, builderVars, serverVars, adaptVars, callVars>>

\* Normalizer.onopentag
onopentag(t) ==
    NormalizerCall([normalizer EXCEPT !.tags = Append(@, t),
                                      !.doc = Append(@, OpenToken(t))], NoError)

\* Normalizer.onclosetag: tag.name of an undefined tag is a TypeError.
onclosetag(tagName) ==
    LET tag == Top(normalizer.tags)
        n == [normalizer EXCEPT !.tags = Pop(@)]
    IN  IF tag = NullTag THEN NormalizerCall(n, TypeError)
        ELSE IF heap[tag].name # tagName THEN NormalizerCall(n, "Unmatched tags")
        ELSE NormalizerCall([n EXCEPT !.doc = Append(@, CloseToken(tag))], NoError)

\* Normalizer.ontext
Normalizer_ontext(text) ==
    NormalizerCall([normalizer EXCEPT !.doc = Append(@, TextToken(esc(text)))], NoError)

NormOpenTag == \E t \in {1, 2} : onopentag(t)
NormCloseTag == \E tagName \in CloseBlockNames \cup CloseInlineNames : onclosetag(tagName)
NormText == \E text \in BuilderTexts : Normalizer_ontext(text)

NextNormalizer == NormOpenTag \/ NormCloseTag \/ NormText

InitClose ==
    /\ ParserInit /\ ~options.isolateSegments
    /\ heap = BuilderHeap
    /\ stage \in {"builder", "normalizer"}
    /\ nextId = 0
    /\ textBlock = NoBlock /\ boundaries = <<>> /\ result = NoBlock
    /\ translation = NoTranslation
    /\ parsedDoc = Doc(NullTag) /\ segmentedDoc = Doc(NullTag)
    /\ html = <<>>
    /\ NoAux

NextClose ==
    \/ (stage = "builder" /\ NextBuilder)
    \/ (stage = "normalizer" /\ NextNormalizer)

SpecClose == InitClose /\ [][NextClose]_vars

\* ---------------------------------------------------------------- server.js
\* The handler of POST /textp.  The response object of a request: statusCode
\* is what res.status() set (200 at first); sent is what went to the client,
\* status and body, once the headers are sent.
MaxRequests == 3

EmptyPhrase == "Content for translate is not given or is empty"

Response == [statusCode |-> 200, headersSent |-> FALSE, sent |-> <<>>]

\* res.status(code): only sets the status code of the response object.
res_status(res, code) == [res EXCEPT !.statusCode = code]

\* res.send(body): writes the head with the current status code and the
\* body, and ends the response; a response is sent once.
res_send(res, body) ==
    IF res.headersSent THEN res
    ELSE [res EXCEPT !.headersSent = TRUE,
                     !.sent = <<[status |-> res.statusCode, body |-> body]>>]

\* res.end(): ends the response, sending the head if it was not sent yet.
res_end(res) ==
    IF res.headersSent THEN res
    ELSE [res EXCEPT !.headersSent = TRUE,
                     !.sent = <<[status |-> res.statusCode, body |-> "(no body)"]>>]

\* String.prototype.trim
RECURSIVE TrimStart(_)
TrimStart(text) ==
    IF text # <<>> /\ Head(text) = " " THEN TrimStart(Tail(text)) ELSE text

trim(text) ==
    LET s == TrimStart(text) IN SubSeq(s, 1, Len(s) - Len(TailSpace(s)))

\* req.body.html: undefined when the field is missing.
HtmlFields == {U, <<>>, <<" ">>, <<" ", " ">>, <<"a">>, <<" ", "a">>, <<"a", " ">>}

\* !sourceHtml || sourceHtml.trim().length === 0
NoContentGiven(sourceHtml) ==
    sourceHtml = U \/ sourceHtml = <<>> \/ Len(trim(sourceHtml)) = 0

\* The handler; tetThrows says whether u.tet(sourceHtml) throws.  The result
\* is the response and whether tet was called.
textp(sourceHtml, tetThrows) ==
    IF NoContentGiven(sourceHtml)
    THEN [res |-> res_end(res_status(res_send(Response, EmptyPhrase), 500)),
          tet |-> FALSE]
    ELSE IF ~tetThrows
    THEN [res |-> res_send(Response, "processedText"), tet |-> TRUE]
    ELSE [res |-> res_end(res_status(res_send(Response, "error.message"), 500)),
          tet |-> TRUE]

InitServer ==
    /\ heap = <<>>
    /\ ParserInit /\ ~options.isolateSegments
    /\ NoPass

PostTextp ==
    /\ Len(server) < MaxRequests
    /\ \E sourceHtml \in HtmlFields, tetThrows \in BOOLEAN :
          LET r == textp(sourceHtml, tetThrows)
          IN  server' = Append(server, [html |-> sourceHtml, res |-> r.res,
                                        tet |-> r.tet])
    /\ UNCHANGED <<heap, parserVars, passVars, builderVars, normVars, adaptVars,
                   callVars>>

NextServer == PostTextp

SpecServer == InitServer /\ [][NextServer]_vars

\* ================================================================= claims

\* Nesting of the open and close items of an item list: the stack of
\* unmatched open tags after the items, or <<-1>> when a close item does not
\* match the most recent unmatched open.
Unnested == <<-1>>

RECURSIVE NestFrom(_, _, _)
NestFrom(items, i, stack) ==
    IF i > Len(items) THEN stack
    ELSE IF items[i].type = "open"
    THEN NestFrom(items, i + 1, Append(stack, items[i].tag))
    ELSE IF items[i].type = "close"
    THEN IF stack # <<>> /\ Top(stack) = items[i].tag
         THEN NestFrom(items, i + 1, Pop(stack))
         ELSE Unnested
    ELSE NestFrom(items, i + 1, stack)

PrefixNested(items) == NestFrom(items, 1, <<>>) # Unnested
Balanced(items) == NestFrom(items, 1, <<>>) = <<>>

\* Sub-documents held as inline content by a chunk list, and by the text
\* blocks of a document, at any depth.
RECURSIVE SubDocsOfChunks(_, _)
RECURSIVE SubDocsOfDoc(_, _)
SubDocsOfChunks(chunks, i) ==
    IF i > Len(chunks) THEN {}
    ELSE (IF chunks[i].inline_content.kind = "doc"
          THEN {chunks[i].inline_content.doc}
               \cup SubDocsOfDoc(chunks[i].inline_content.doc, 1)
          ELSE {})
         \cup SubDocsOfChunks(chunks, i + 1)
SubDocsOfDoc(doc, i) ==
    IF i > Len(doc.items) THEN {}
    ELSE (IF doc.items[i].type = "textblock"
          THEN SubDocsOfChunks(doc.items[i].block.text_chunks, 1)
          ELSE {})
         \cup SubDocsOfDoc(doc, i + 1)

\* Characters of text held by a chunk list and by a document, sub-documents
\* included.
RECURSIVE CharsInChunks(_, _)
RECURSIVE CharsInDoc(_, _)
CharsInChunks(chunks, i) ==
    IF i > Len(chunks) THEN 0
    ELSE Len(chunks[i].text)
         + (IF chunks[i].inline_content.kind = "doc"
            THEN CharsInDoc(chunks[i].inline_content.doc, 1) ELSE 0)
         + CharsInChunks(chunks, i + 1)
CharsInDoc(doc, i) ==
    IF i > Len(doc.items) THEN 0
    ELSE (IF doc.items[i].type = "textblock"
          THEN CharsInChunks(doc.items[i].block.text_chunks, 1)
          ELSE IF doc.items[i].type = "blockspace"
          THEN Len(doc.items[i].space)
          ELSE 0)
         + CharsInDoc(doc, i + 1)

\* The input fed so far is a complete well-nested document and parsing did
\* not fail: the orchestrator reads parser.builder.doc.  parser.write delivers
\* character data only when the tag that follows it is read, so the events of
\* a whole input never end with a text event.
ParseEnded == error = NoError /\ allTags = <<>> /\ lastEvent \in {"none", "close"}
ParsedDoc == Cur(builders).doc

\* C1: no builder method runs for an event between the open of a tag for
\* which isRemovable is true and that tag's matching close (both included),
\* so nothing of the Doc descends from a removable tag.
C1_RemovablePurge ==
    [][(InRemovableRegion(heap, allTags) \/ InRemovableRegion(heap', allTags'))
         => builders' = builders]_vars

\* C2: the open and close items of the Doc, and of every sub-document, are
\* properly nested: a close item always carries the tag of the most recent
\* unmatched open item, and after a well-nested input no open item is left
\* unmatched.
C2_BalancedItems ==
    error = NoError =>
        /\ \A k \in 1..Len(builders) :
              /\ PrefixNested(builders[k].doc.items)
              /\ \A d \in SubDocsOfDoc(builders[k].doc, 1)
                          \cup SubDocsOfChunks(builders[k].text_chunks, 1) :
                    Balanced(d.items)
        /\ ParseEnded => Balanced(ParsedDoc.items)

\* C3: when parsing ends, every character of the text events received outside
\* removable regions is in a textblock or blockspace item of the Doc the
\* orchestrator reads (or of a sub-document attached to it).
C3_TextReachesDoc ==
    ParseEnded => CharsInDoc(ParsedDoc, 1) = fed

\* The tags of a chunk that segmentation did not create.
InputTagsOf(tags) == SelectSeq(tags, LAMBDA t : t <= Len(BlockHeap))

\* The pieces `out` are, in order, the chunks `inp` cut into one or more
\* pieces each: the texts of a chunk's pieces make up its text, every piece
\* has the chunk's tags, and the chunk's inline_content is on its last piece
\* and on no other.
RECURSIVE PiecesOf(_, _)
PiecesOf(out, inp) ==
    IF inp = <<>> THEN out = <<>>
    ELSE \E k \in 1..Len(out) :
            /\ Concat([i \in 1..k |-> out[i].text]) = inp[1].text
            /\ \A i \in 1..k : InputTagsOf(out[i].tags) = inp[1].tags
            /\ \A i \in 1..(k - 1) : out[i].inline_content = NoContent
            /\ out[k].inline_content = inp[1].inline_content
            /\ PiecesOf(SubSeq(out, k + 1, Len(out)), Tail(inp))

\* C4: the block returned by TextBlock.segment has the plain text of the
\* original; its chunks are the original chunks cut into pieces that keep the
\* chunk's tags, and every inline_content of the input is there exactly once,
\* in the original order, on the last piece of its chunk.
C4_SegmentPreserves ==
    stage = "segment" =>
        /\ get_plain_text(result) = get_plain_text(textBlock)
        /\ PiecesOf(result.text_chunks, textBlock.text_chunks)

\* A chunk with tags and inline content was cut in two, after a chunk with
\* inline content of its own.
C4_Witness ==
    /\ stage = "segment"
    /\ Len(textBlock.text_chunks) = 2
    /\ Len(result.text_chunks) = 3
    /\ textBlock.text_chunks[1].inline_content = DocContent(RefDoc)
    /\ textBlock.text_chunks[2].inline_content = TagContent(5)
    /\ result.text_chunks[2].text = <<"a">>
    /\ InputTagsOf(result.text_chunks[2].tags) = <<1>>

\* The offsets of a text block agree with its chunks.
OffsetsOK(blk) ==
    /\ Len(blk.offsets) = Len(blk.text_chunks)
    /\ blk.offsets # <<>> => blk.offsets[1].start = 0
    /\ \A i \in 1..Len(blk.offsets) :
          /\ blk.offsets[i].length = Len(blk.text_chunks[i].text)
          /\ i < Len(blk.offsets) =>
                blk.offsets[i].start + blk.offsets[i].length = blk.offsets[i + 1].start
    /\ LET n == Len(blk.offsets)
       IN  (IF n = 0 THEN 0 ELSE blk.offsets[n].start + blk.offsets[n].length)
              = Len(get_plain_text(blk))

\* C10: every TextBlock built from a chunk list has one offset per chunk,
\* starting at 0, each as long as its chunk's text and ending where the next
\* starts, the last ending at the length of the plain text; so have the
\* blocks returned by segment() and translate_tags().
C10_OffsetsConsistent ==
    /\ OffsetsOK(textBlock)
    /\ (stage \in {"segment", "translate_tags"} /\ error = NoError) => OffsetsOK(result)

\* translate_tags returned a block with a zero-width chunk between chunks
\* with text, made from a block that has chunks.
C10_Witness ==
    /\ stage = "translate_tags" /\ error = NoError
    /\ Len(textBlock.text_chunks) = 2
    /\ Len(result.text_chunks) >= 3
    /\ \E i \in 2..(Len(result.text_chunks) - 1) :
          /\ result.text_chunks[i].text = <<>>
          /\ result.text_chunks[i - 1].text # <<>>
          /\ result.text_chunks[i + 1].text # <<>>

\* The text chunks of the text blocks of a document, as <<item, chunk>>.
ChunkPlaces(doc) ==
    {<<i, c>> \in (1..Len(doc.items)) \X (1..(2 * MaxBlocks + 4)) :
        /\ doc.items[i].type = "textblock"
        /\ c <= Len(doc.items[i].block.text_chunks)}

TagsAt(doc, place) == doc.items[place[1]].block.text_chunks[place[2]].tags

Range(seq) == {seq[i] : i \in 1..Len(seq)}

ChunkTagRefs(doc) == UNION {Range(TagsAt(doc, place)) : place \in ChunkPlaces(doc)}

SegmentSpans == {t \in 1..Len(heap) : heap[t].attributes.class = "cx-segment"}

Segmented == stage \in {"segment", "get_html"}

C6_EveryLinkHasId ==
    Segmented =>
        LET links == {t \in ChunkTagRefs(segmentedDoc) : isTranslatableLink(heap[t])}
        IN  /\ \A t \in links :
                  /\ heap[t].attributes.class = "cx-link"
                  /\ Has(heap[t].attributes, "data_linkid")
            /\ \A t, u \in links :
                  t # u => heap[t].attributes.data_linkid # heap[u].attributes.data_linkid

OpenTags(doc) == {doc.items[i].tag : i \in {j \in 1..Len(doc.items) : doc.items[j].type = "open"}}

\* C7: after wrap_sections the ids of the open items of the document are
\* pairwise distinct, those given by the pass and those of the input alike.
C7_BlockIdsDistinct ==
    stage # "parse" =>
        \A t, u \in OpenTags(parsedDoc) :
            t # u => heap[t].attributes.id # heap[u].attributes.id

HtmlOpenTags == {html[i].tag : i \in {j \in 1..Len(html) : html[j].k = "open"}}

\* C8 as stated: every tag of the HTML the pipeline produces has an id.
C8_EveryTagHasId ==
    stage = "get_html" => \A t \in HtmlOpenTags : Has(heap[t].attributes, "id")

\* C8 amended: in the HTML the pipeline produces every block tag (the tag of
\* an open item of the document) has an id; a cx-segment span has a
\* data-segmentid and no id; the other tags (inline annotation tags, inline
\* empty tags, the tags of sub-documents) get no id from the pipeline.
C8_BlockTagsHaveId ==
    stage = "get_html" =>
        \A t \in HtmlOpenTags :
            IF t \in OpenTags(segmentedDoc) THEN Has(heap[t].attributes, "id")
            ELSE IF t \in SegmentSpans
            THEN Has(heap[t].attributes, "data_segmentid") /\ ~Has(heap[t].attributes, "id")
            ELSE ~Has(heap[t].attributes, "id")

\* HTML with block tags, a segment span, a link, an inline empty tag and a
\* reference.
C8_Witness ==
    /\ stage = "get_html"
    /\ HtmlOpenTags \cap SegmentSpans # {}
    /\ \E t \in HtmlOpenTags : isTranslatableLink(heap[t])
    /\ 5 \in HtmlOpenTags /\ 6 \in HtmlOpenTags
    /\ Cardinality(HtmlOpenTags \cap OpenTags(segmentedDoc)) = 3

\* The calls behind the text blocks of the builder's doc, with the blocks.
BuiltBlocks ==
    LET items == Cur(builders).doc.items
    IN  {[block |-> items[i].block, calls |-> blockCalls[i]] :
            i \in {j \in 1..Len(items) : items[j].type = "textblock"}}

LastTextCall(cs) ==
    LET S == {k \in 1..Len(cs) : cs[k].method = "add_text_chunk"}
    IN  IF S = {} THEN 0 ELSE CHOOSE k \in S : \A j \in S : j <= k

\* C9 as stated: the textblock that finish_text_block emits is segmentable if
\* and only if every add_text_chunk and add_inline_content call that
\* contributed a chunk to it was made with can_segment true.
C9_AllContributionsSegmentable ==
    stage = "builder" =>
        \A e \in BuiltBlocks :
            e.block.can_segment <=> \A k \in 1..Len(e.calls) : e.calls[k].can_segment

\* C9 amended: each chunk of the emitted textblock comes from one call, and
\* the block is segmentable if and only if the last add_text_chunk among
\* them (if there is one) was made with can_segment true and so was every
\* add_inline_content after it (every one, if there is no add_text_chunk).
C9_LastTextChunkDecides ==
    stage = "builder" =>
        \A e \in BuiltBlocks :
            /\ Len(e.calls) = Len(e.block.text_chunks)
            /\ \A k \in 1..Len(e.calls) :
                  (e.calls[k].method = "add_text_chunk")
                      <=> (e.block.text_chunks[k].inline_content.kind = "none")
            /\ e.block.can_segment <=>
                  /\ LastTextCall(e.calls) # 0 => e.calls[LastTextCall(e.calls)].can_segment
                  /\ \A k \in (LastTextCall(e.calls) + 1)..Len(e.calls) :
                        e.calls[k].can_segment

\* A segmentable block with a non-segmentable contribution before its last
\* text chunk.
C9_Witness ==
    /\ stage = "builder"
    /\ \E e \in BuiltBlocks :
          /\ e.block.can_segment
          /\ \E k \in 1..Len(e.calls) : ~e.calls[k].can_segment

\* C11: translate_tags with the block's own plain text and the identity
\* mapping returns a block with the chunk sequence of the block: the same
\* texts, tags and inline contents in the same order.
C11_IdentityPreservesChunks ==
    stage = "translate_identity" =>
        /\ error = NoError
        /\ result.text_chunks = textBlock.text_chunks

TargetEnd(m) == m.target.start + m.target.length

\* Two of the mappings have target ranges with a character in common.
TargetsOverlap(ms) ==
    \E i, j \in 1..Len(ms) :
        /\ i # j
        /\ ms[i].target.start < TargetEnd(ms[j])
        /\ ms[j].target.start < TargetEnd(ms[i])

TargetsInside(ms, text) == \A i \in 1..Len(ms) : TargetEnd(ms[i]) <= Len(text)

\* C12: for mappings whose target ranges are pairwise disjoint and inside the
\* target text, the block that translate_tags returns has the target text as
\* its plain text.
C12_PlainTextIsTarget ==
    (/\ stage = "translate_tags"
     /\ error = NoError
     /\ ~TargetsOverlap(translation.rangeMappings)
     /\ TargetsInside(translation.rangeMappings, translation.targetText))
        => get_plain_text(result) = translation.targetText

\* A block returned for a mapping that leaves a gap before it and trailing
\* whitespace after it, with a zero-width chunk in the source block.
C12_Witness ==
    /\ stage = "translate_tags"
    /\ error = NoError
    /\ translation.targetText = <<"a", "a", " ">>
    /\ Len(translation.rangeMappings) = 1
    /\ translation.rangeMappings[1].target = [start |-> 1, length |-> 1]
    /\ \E i \in 1..Len(textBlock.text_chunks) : textBlock.text_chunks[i].text = <<>>
    /\ Len(result.text_chunks) = 4

\* C13: when two mappings have overlapping target ranges translate_tags
\* fails with the overlap error and returns no block.
C13_OverlapFails ==
    (stage = "translate_tags" /\ TargetsOverlap(translation.rangeMappings))
        => (error = OverlapError /\ result = NoBlock)

StageOrder ==
    {<<"write", "parse">>, <<"parse", "wrapSections">>,
     <<"wrapSections", "segment">>, <<"segment", "get_html">>}

C15_EmptyHtmlIs500 ==
    \A i \in 1..Len(server) :
        NoContentGiven(server[i].html) =>
            /\ server[i].res.sent = <<[status |-> 500, body |-> EmptyPhrase]>>
            /\ ~server[i].tet

SegmenterError == "SegmenterError"

\* C16: when the boundary function returns offsets that are not increasing
\* or that lie beyond the plain text, segmentation fails with a
\* SegmenterError: no block is produced, no id is allocated and no tag is
\* made or changed.
C16_InvalidOffsetsFail ==
    stage = "segment_unchecked" =>
        /\ error = SegmenterError
        /\ result = NoBlock
        /\ nextId = 0
        /\ heap = BlockHeap

\* C17: Builder.pop_block_tag and Builder.pop_inline_annotation_tag raise an
\* error when their stack is empty or the tag on its top has another name than
\* the closing tag, and so does Normalizer.onclosetag; the failing call appends
\* nothing to the Doc, leaves the pending text chunks pending and pushes
\* nothing to the Normalizer's output.
Mismatch(stack, tag_name) ==
    Top(stack) = NullTag \/ heap[Top(stack)].name # tag_name

BuilderUntouched ==
    /\ Cur(builders').doc = Cur(builders).doc
    /\ Cur(builders').text_chunks = Cur(builders).text_chunks

C17_MismatchedCloseRaises ==
    [][/\ \A tag_name \in CloseBlockNames :
            (/\ stage = "builder"
             /\ PopBlockTagOf(tag_name)
             /\ Mismatch(Cur(builders).BLOCK_TAGS, tag_name))
                => error' # NoError /\ BuilderUntouched
       /\ \A tag_name \in CloseInlineNames :
            (/\ stage = "builder"
             /\ PopInlineAnnotationTagOf(tag_name)
             /\ Mismatch(Cur(builders).inline_annotation_tags, tag_name))
                => error' # NoError /\ BuilderUntouched
       /\ \A tagName \in CloseBlockNames \cup CloseInlineNames :
            (/\ stage = "normalizer"
             /\ onclosetag(tagName)
             /\ Mismatch(normalizer.tags, tagName))
                => error' # NoError /\ normalizer'.doc = normalizer.doc]_vars

\* <p>, a text chunk, then the close of a div: the paragraph's text is still
\* pending and the Doc holds the open item only.
C17_Witness ==
    /\ stage = "builder"
    /\ error = "Mismatched block tags"
    /\ Len(Cur(builders).doc.items) = 1
    /\ Cur(builders).text_chunks # <<>>

\* C18: the promise returned by TextBlock.adapt is fulfilled only when every
\* promise of adapter.adapt() and of a sub-document's adapt made by the call
\* is fulfilled, and each chunk whose inline content was adapted then holds
\* the adapted value; once one of these promises is rejected the returned
\* promise is never fulfilled, and it is rejected in the end.
AdapterStates ==
    {adaptation.adapterPromises[i].state : i \in DOMAIN adaptation.adapterPromises}

InlineReplaced ==
    \A k \in DOMAIN adaptation.textChunkPromises :
        LET tc == adaptation.textChunkPromises[k]
        IN  tc.kind = "then" =>
                \A i \in tc.deps :
                    textBlock.text_chunks[tc.chunk].inline_content =
                        adaptation.adapterPromises[i].value

C18_AdaptAwaitsAll ==
    /\ [](adaptation.returned = Fulfilled =>
            /\ AdapterStates \subseteq {Fulfilled}
            /\ InlineReplaced
            /\ result = textBlock)
    /\ [](Rejected \in AdapterStates => adaptation.returned # Fulfilled)
    /\ (Rejected \in AdapterStates ~> adaptation.returned = Rejected)

\* A block with a tag adapter promise and an adapted inline content, resolved.
C18_Witness ==
    /\ adaptation.returned = Fulfilled
    /\ \E k \in DOMAIN adaptation.textChunkPromises :
         /\ adaptation.textChunkPromises[k].kind = "then"
         /\ textBlock.text_chunks[adaptation.textChunkPromises[k].chunk].inline_content
                \in {TagContent(9), DocContent(AdaptedRefDoc)}
    /\ \E i \in DOMAIN adaptation.adapterPromises :
         adaptation.adapterPromises[i].source = "tags"

\* C19: the close of a tag that opened a sub-document (is_reference or isMath,
\* outside removable content) finishes the child's text block, adds the
\* child's Doc as one inline-content chunk to the parent builder and makes the
\* parent the current builder; when a well-nested input has ended the current
\* builder is the root builder.
ClosesSubDocument ==
    /\ allTags # <<>>
    /\ get_context(contexts) # RemovableContext
    /\ is_reference(heap[Top(allTags)]) \/ isMath(heap[Top(allTags)])

ChildDocAdded ==
    /\ Len(builders) > 1
    /\ Len(builders') = Len(builders) - 1
    /\ LET parent == builders[Len(builders) - 1]
           child == finish_text_block(Cur(builders))
       IN  /\ Len(Cur(builders').text_chunks) = Len(parent.text_chunks) + 1
           /\ Cur(builders').text_chunks[Len(parent.text_chunks) + 1].inline_content
                  = DocContent(child.doc)
           /\ SubSeq(Cur(builders').text_chunks, 1, Len(parent.text_chunks))
                  = parent.text_chunks

C19_SubDocumentCloses ==
    /\ [][(ClosesSubDocument /\ CloseTag) => (error' = NoError /\ ChildDocAdded)]_vars
    /\ [](ParseEnded => Len(builders) = 1)

\* C20: a tag is classified at its close as it was at its open: a tag pushed
\* as a block tag is closed by pop_block_tag and a tag pushed as an inline
\* annotation by pop_inline_annotation_tag, whatever child context the
\* contextualizer gave the tag.
ClosingTag == heap[Top(allTags)]

\* The closing tag went to push_block_tag or push_inline_annotation_tag.
ClosesPushedTag ==
    /\ allTags # <<>>
    /\ get_context(contexts) # RemovableContext
    /\ ~is_reference(ClosingTag) /\ ~isMath(ClosingTag)
    /\ ~is_inline_empty_tag(ClosingTag.name)

\* is_inline_annotation_tag as on_open_tag saw it: in the parent's context.
AnnotationAtOpen ==
    is_inline_annotation_tag(ClosingTag.name, is_transclusion(ClosingTag), Pop(contexts))

AnnotationAtClose ==
    is_inline_annotation_tag(ClosingTag.name, is_transclusion(ClosingTag), contexts)

C20_ClosedAsOpened ==
    [][(ClosesPushedTag /\ CloseTag) =>
          /\ AnnotationAtClose = AnnotationAtOpen
          /\ AnnotationAtOpen =>
                Cur(builders').inline_annotation_tags
                    = Pop(Cur(builders).inline_annotation_tags)
          /\ ~AnnotationAtOpen =>
                /\ Cur(builders').BLOCK_TAGS = Pop(Cur(builders).BLOCK_TAGS)
                /\ Cur(builders').inline_annotation_tags
                       = Cur(builders).inline_annotation_tags]_vars

\* C21: after every open or close event, dropped ones included, the stack of
\* open tags and the stack of contexts have the same height, and each context
\* is the child context of the tag at its height, computed from that tag and
\* the context below it.
C21_StacksAligned ==
    /\ Len(contexts) = Len(allTags)
    /\ \A i \in 1..Len(allTags) :
          i <= Len(contexts) =>
              contexts[i] = mw_get_child_context(heap[allTags[i]],
                                                 SubSeq(contexts, 1, i - 1))

\* A close inside a removable region has been dropped, below an open figure.
C21_Witness ==
    /\ lastEvent = "close"
    /\ Len(allTags) = 2
    /\ contexts = <<"media", RemovableContext>>
    /\ error = NoError

\* C22 as stated: can_segment() is true exactly when the top context is empty
\* and no context below it on the stack is removable, verbatim or media.
C22_NoUnsegmentableAncestor ==
    can_segment(contexts) <=>
        /\ get_context(contexts) = U
        /\ \A i \in 1..Len(contexts) :
              contexts[i] \notin {RemovableContext, "verbatim", "media"}

\* C22, amended: can_segment() is true exactly when the top context is empty;
\* then no context on the stack is removable (a removable context is passed on
\* to every descendant), while a media context may lie below: the caption of
\* a figure is segmentable.
C22_TopContextDecides ==
    /\ can_segment(contexts) <=> get_context(contexts) = U
    /\ can_segment(contexts) =>
          \A i \in 1..Len(contexts) : contexts[i] # RemovableContext
    /\ \A i \in 1..Len(contexts) :
          (/\ contexts[i] = U
           /\ \E j \in 1..(i - 1) : contexts[j] = "media"
           /\ \A j \in (i + 1)..Len(contexts) : contexts[j] = U)
             => can_segment(contexts)

\* Inside the caption of a figure.
C22_Witness ==
    /\ Len(contexts) >= 2
    /\ contexts[1] = "media"
    /\ get_context(contexts) = U
    /\ can_segment(contexts)
    /\ heap[Top(allTags)].name = "figcaption"

\* C23: get_common_tags returns the longest common prefix of the chunks' tag
\* stacks compared by identity: a position is in the result only if all
\* chunks hold the same Tag object there; a block without chunks gives the
\* empty list.
RECURSIVE IdentityPrefix(_, _)
IdentityPrefix(chunks, j) ==
    IF /\ \A i \in 1..Len(chunks) : Len(chunks[i].tags) >= j
       /\ \A i \in 1..Len(chunks) : chunks[i].tags[j] = chunks[1].tags[j]
    THEN IdentityPrefix(chunks, j + 1)
    ELSE j - 1

C23_CommonByIdentity ==
    returned.of = "get_common_tags" =>
        returned.value =
            IF textBlock.text_chunks = <<>> THEN <<>>
            ELSE SubSeq(textBlock.text_chunks[1].tags, 1,
                        IdentityPrefix(textBlock.text_chunks, 1))

\* The segments of a segmented block: the cx-segment spans made by the call,
\* each the last tag of the chunks of its segment.
NewSpans == (Len(BlockHeap) + 1)..Len(heap)

SegmentOf(chunk) == Top(chunk.tags)

ResultSegments == {SegmentOf(result.text_chunks[i]) : i \in 1..Len(result.text_chunks)}

\* The boundaries are in order (repeats allowed) and within the plain text.
OrderedBoundaries ==
    /\ \A i \in 1..(Len(boundaries) - 1) : boundaries[i] <= boundaries[i + 1]
    /\ \A i \in 1..Len(boundaries) : boundaries[i] <= Len(get_plain_text(textBlock))

InteriorBoundaries ==
    {boundaries[i] : i \in 1..Len(boundaries)}
        \cap (1..(Len(get_plain_text(textBlock)) - 1))

BlockSegmented ==
    /\ stage \in {"segment", "segment_unchecked"}
    /\ OrderedBoundaries
    /\ get_plain_text(textBlock) # <<>>

SegmentsAsBoundaries ==
    /\ Cardinality(NewSpans) = 1 + Cardinality(InteriorBoundaries)
    /\ ResultSegments = NewSpans
    /\ nextId >= Cardinality(NewSpans)
    /\ \A s \in NewSpans :
          \E i \in 1..Len(result.text_chunks) :
              /\ SegmentOf(result.text_chunks[i]) = s
              /\ result.text_chunks[i].text # <<>>
    /\ \A i \in 2..Len(result.text_chunks) :
          result.text_chunks[i].text = <<>> =>
              SegmentOf(result.text_chunks[i]) = SegmentOf(result.text_chunks[i - 1])

\* C24 as stated: for every block with non-empty plain text, segment makes one
\* segment more than there are distinct boundaries strictly inside the text.
C24_SegmentsForEveryBlock == BlockSegmented => SegmentsAsBoundaries

TransclusionRoot ==
    LET rootItem == getRootItem(textBlock.text_chunks, 1)
    IN  rootItem # NullTag /\ is_transclusion(heap[rootItem])

\* C24, amended: for a block with non-empty plain text whose root item is not
\* a transclusion, segment draws a segment id only for a segment that holds
\* text: a boundary at 0, a repeated boundary and a boundary at the end of the
\* text make no segment, the number of segments is one plus the number of
\* distinct boundaries strictly inside the text, and a zero-width chunk is in
\* the segment of the chunk before it.
C24_SegmentsPerBoundary == (BlockSegmented /\ ~TransclusionRoot) => SegmentsAsBoundaries

\* A repeated boundary inside the text of a block with a zero-width chunk.
C24_Witness ==
    /\ stage = "segment_unchecked"
    /\ ~TransclusionRoot
    /\ boundaries = <<1, 1>>
    /\ Len(get_plain_text(textBlock)) >= 2
    /\ \E i \in 2..Len(textBlock.text_chunks) : textBlock.text_chunks[i].text = <<>>
    /\ Cardinality(NewSpans) = 2

\* C25: TextBlock.segment on a block whose root item is a transclusion
\* returns the block it was called on (the same chunks, can_segment kept),
\* does not call the boundary function, draws no segment id and no link id,
\* and changes no tag.
C25_TransclusionBlockKept ==
    (stage \in {"segment", "segment_unchecked"} /\ TransclusionRoot)
        => /\ result = textBlock
           /\ returned = [of |-> "segment", getBoundariesCalls |-> 0]
           /\ nextId = 0
           /\ heap = BlockHeap

\* A transclusion block with a link that would get an id and a boundary
\* inside its text.
C25_Witness ==
    /\ stage = "segment" /\ TransclusionRoot
    /\ InteriorBoundaries # {}
    /\ \E i \in 1..Len(textBlock.text_chunks) :
           \E k \in 1..Len(textBlock.text_chunks[i].tags) :
              isTranslatableLink(heap[textBlock.text_chunks[i].tags[k]])
    /\ result = textBlock

\* C26: pop_inline_annotation_tag on a popped tag with attributes that is a
\* reference, external link or transclusion.  The trailing chunks are the
\* pending chunks at the end of the list whose top tag is the popped tag; when
\* all of them are whitespace-only text without inline content (also when
\* there is none) they are replaced by one inline-content chunk holding
\* open(tag), a text block with their whitespace in order, close(tag),
\* whatever the tag stack of the chunk before them; otherwise the pending
\* chunks stay as they are.
TrailingStart(chunks, tag) ==
    CHOOSE i \in 0..Len(chunks) :
        /\ \A k \in (i + 1)..Len(chunks) :
               chunks[k].tags # <<>> /\ Top(chunks[k].tags) = tag
        /\ i = 0 \/ chunks[i].tags = <<>> \/ Top(chunks[i].tags) # tag

WhitespaceDoc(tag, whitespace) ==
    [wrapper_tag |-> NullTag,
     items |-> <<OpenItem(tag),
                 TextBlockItem(TextBlock(<<TextChunk(whitespace, <<>>, NoContent)>>,
                                         FALSE)),
                 CloseItem(tag)>>,
     categories |-> <<>>]

PoppedDataTag(b, tag_name) ==
    LET tag == Top(b.inline_annotation_tags) IN
    /\ tag # NullTag /\ heap[tag].name = tag_name
    /\ NumAttrs(heap[tag].attributes) > 0
    /\ is_reference(heap[tag]) \/ isExternalLink(heap[tag]) \/ is_transclusion(heap[tag])

EmptyAnnotationReplaced(b, after) ==
    LET tag == Top(b.inline_annotation_tags)
        i == TrailingStart(b.text_chunks, tag)
        trailing == SubSeq(b.text_chunks, i + 1, Len(b.text_chunks))
        whitespace == Concat([k \in 1..Len(trailing) |-> trailing[k].text])
    IN  IF \A k \in 1..Len(trailing) : ~ChunkHasContent(trailing[k])
        THEN /\ Len(after.text_chunks) = i + 1
             /\ SubSeq(after.text_chunks, 1, i) = SubSeq(b.text_chunks, 1, i)
             /\ after.text_chunks[i + 1].text = <<>>
             /\ after.text_chunks[i + 1].inline_content =
                    DocContent(WhitespaceDoc(tag, whitespace))
        ELSE after.text_chunks = b.text_chunks

C26_EmptyAnnotationReplaced ==
    [][\A tag_name \in CloseInlineNames :
          (/\ stage = "builder"
           /\ PopInlineAnnotationTagOf(tag_name)
           /\ PoppedDataTag(Cur(builders), tag_name))
              => EmptyAnnotationReplaced(Cur(builders), Cur(builders'))]_vars

\* C27: a section tag with data-mw-section-id that opens inside another such
\* section is added to the Doc, as an open item when it is pushed and as a
\* close item when it is popped; a section outside every other section gets
\* no item.
InSection(b) == \E k \in 1..Len(b.BLOCK_TAGS) : isSection(heap[b.BLOCK_TAGS[k]])

LastItem(b) == b.doc.items[Len(b.doc.items)]

NoItemFor(tag, after) ==
    \A k \in 1..Len(after.doc.items) :
        after.doc.items[k].type \in {"open", "close"} => after.doc.items[k].tag # tag

C27_NestedSectionPassedThrough ==
    [][/\ \A tag \in SectionTags :
            (stage = "builder" /\ PushBlockTagOf(tag))
                => IF InSection(Cur(builders))
                   THEN /\ Cur(builders').doc.items # <<>>
                        /\ LastItem(Cur(builders')) = OpenItem(tag)
                   ELSE NoItemFor(tag, Cur(builders'))
       /\ (/\ stage = "builder" /\ PopSectionTag /\ error' = NoError
           /\ isSection(heap[Top(Cur(builders).BLOCK_TAGS)]))
                => IF InSection(Cur(builders'))
                   THEN /\ Cur(builders').doc.items # <<>>
                        /\ LastItem(Cur(builders')) =
                               CloseItem(Top(Cur(builders).BLOCK_TAGS))
                   ELSE NoItemFor(Top(Cur(builders).BLOCK_TAGS), Cur(builders'))]_vars

\* C28: Builder.finish_text_block adds no item when no chunk is pending; one
\* blockspace item with the concatenated chunk texts when every pending chunk
\* is whitespace-only text without inline content; otherwise one textblock
\* item with all pending chunks in order and the segmentability flag of the
\* builder.  Afterwards no chunk is pending and the flag is true.
FinishedAs(b, after) ==
    /\ after.text_chunks = <<>>
    /\ after.is_block_segmentable
    /\ IF b.text_chunks = <<>>
       THEN after.doc.items = b.doc.items
       ELSE /\ Len(after.doc.items) = Len(b.doc.items) + 1
            /\ SubSeq(after.doc.items, 1, Len(b.doc.items)) = b.doc.items
            /\ LastItem(after) =
                  IF \A i \in 1..Len(b.text_chunks) :
                        /\ b.text_chunks[i].inline_content = NoContent
                        /\ ~HasNonSpace(b.text_chunks[i].text)
                  THEN BlockSpaceItem(
                           Concat([i \in 1..Len(b.text_chunks) |-> b.text_chunks[i].text]))
                  ELSE TextBlockItem(TextBlock(b.text_chunks, b.is_block_segmentable))

C28_FinishTextBlock ==
    [][(stage = "builder" /\ FinishTextBlock)
          => FinishedAs(Cur(builders), Cur(builders'))]_vars

\* finish_text_block alone has made both kinds of item: a blockspace, and a
\* text block that was not segmentable.
C28_Witness ==
    /\ stage = "builder"
    /\ Cur(builders).BLOCK_TAGS = <<>> /\ Cur(builders).text_chunks = <<>>
    /\ Len(Cur(builders).doc.items) = 2
    /\ \E k \in 1..2 : Cur(builders).doc.items[k].type = "blockspace"
    /\ \E k \in 1..2 :
          /\ Cur(builders).doc.items[k].type = "textblock"
          /\ ~Cur(builders).doc.items[k].block.can_segment
    /\ Cur(builders).is_block_segmentable

\* C29: when a <p> closes and the context after the close is segmentable,
\* the parser adds an empty text chunk with the open inline annotations to
\* the pending chunks before it pops the block tag; the pending chunks, the
\* trailing inline references among them and the empty chunk last, are the
\* text block that is added just before the close item of the <p>.
ParagraphCloses ==
    /\ stage = "parse" /\ CloseTag
    /\ heap[Top(allTags)].name = "p"
    /\ ~(isRemovable(heap[Top(allTags)]) \/ get_context(contexts) = RemovableContext)
    /\ can_segment(contexts')

FlushedChunks(b) ==
    Append(b.text_chunks, TextChunk(<<>>, b.inline_annotation_tags, NoContent))

ClosedAfter(b, after, item) ==
    /\ error' = NoError
    /\ after.text_chunks = <<>>
    /\ after.doc.items =
          b.doc.items \o <<item, CloseItem(Top(allTags))>>

\* As stated: the paragraph always gets a text block.
C29_EmptyChunkAtParagraphClose ==
    [][ParagraphCloses
          => ClosedAfter(Cur(builders), Cur(builders'),
                 TextBlockItem(TextBlock(FlushedChunks(Cur(builders)), TRUE)))]_vars

\* A paragraph whose pending chunks are whitespace-only text gets a
\* blockspace item in place of the text block (the <p> being the block tag
\* on top of the builder's stack).
C29_ParagraphFlushed ==
    [][(ParagraphCloses /\ Top(Cur(builders).BLOCK_TAGS) = Top(allTags))
          => LET b == Cur(builders) IN
             ClosedAfter(b, Cur(builders'),
                 IF \E i \in 1..Len(b.text_chunks) : ChunkHasContent(b.text_chunks[i])
                 THEN TextBlockItem(TextBlock(FlushedChunks(b), TRUE))
                 ELSE BlockSpaceItem(
                          Concat([i \in 1..Len(b.text_chunks) |->
                                     b.text_chunks[i].text])))]_vars

\* <p>a<sup typeof="mw:Extension/ref">..</sup></p>: the text block of the
\* paragraph ends with the reference and the empty chunk.
C29_Witness ==
    /\ stage = "parse" /\ lastEvent = "close" /\ error = NoError
    /\ Len(builders) = 1
    /\ LET items == Cur(builders).doc.items IN
       /\ Len(items) >= 3
       /\ items[Len(items)].type = "close" /\ heap[items[Len(items)].tag].name = "p"
       /\ items[Len(items) - 1].type = "textblock"
       /\ LET chunks == items[Len(items) - 1].block.text_chunks IN
          /\ Len(chunks) >= 3
          /\ chunks[Len(chunks)] = TextChunk(<<>>, <<>>, NoContent)
          /\ chunks[Len(chunks) - 1].inline_content.kind = "doc"

\* C30: no parser event removes, replaces or reorders an item of a Doc: the
\* item list of every builder's Doc after the event extends the list before
\* it (the Doc of a closed sub-document is the inline content handed to its
\* parent), and when an event adds the open or close item of a block tag, the
\* chunks that were pending before the event are added as one item before
\* it, and nothing is left pending.
IsPrefix(s, t) == Len(s) <= Len(t) /\ SubSeq(t, 1, Len(s)) = s

AddedItems(b, after) ==
    SubSeq(after.doc.items, Len(b.doc.items) + 1, Len(after.doc.items))

PendingBeforeTag(b, after) ==
    LET added == AddedItems(b, after) IN
    (\E k \in 1..Len(added) : added[k].type \in {"open", "close"})
        => /\ after.text_chunks = <<>>
           /\ \A k \in 2..Len(added) : added[k].type \in {"open", "close"}
           /\ IF b.text_chunks = <<>> /\ ~ParagraphCloses
              THEN added[1].type \in {"open", "close"}
              ELSE \/ /\ added[1].type = "textblock"
                      /\ IsPrefix(b.text_chunks, added[1].block.text_chunks)
                   \/ /\ added[1].type = "blockspace"
                      /\ \A i \in 1..Len(b.text_chunks) :
                            ~ChunkHasContent(b.text_chunks[i])

C30_ItemsOnlyAppended ==
    [][(stage = "parse" /\ NextParagraph)
          => /\ \A i \in 1..Min(Len(builders), Len(builders')) :
                   IsPrefix(builders[i].doc.items, builders'[i].doc.items)
             /\ Len(builders') = Len(builders)
                   => PendingBeforeTag(Cur(builders), Cur(builders'))
             /\ Len(builders') < Len(builders)
                   => /\ Cur(builders').doc.items =
                            builders[Len(builders')].doc.items
                      /\ LET chunk == Cur(builders').text_chunks[
                                          Len(Cur(builders').text_chunks)]
                         IN  /\ chunk.inline_content.kind = "doc"
                             /\ IsPrefix(Cur(builders).doc.items,
                                         chunk.inline_content.doc.items)]_vars

\* a<p>a</p>: the text before the paragraph precedes its open item, the
\* paragraph's text block precedes its close item.
C30_Witness ==
    /\ stage = "parse" /\ error = NoError /\ Len(builders) = 1
    /\ LET items == Cur(builders).doc.items IN
       /\ Len(items) = 4
       /\ items[1].type = "textblock" /\ items[2].type = "open"
       /\ items[3].type = "textblock" /\ items[4].type = "close"

\* C31: the HTML of a text block is properly nested: every close tag closes
\* the tag opened last and not yet closed, nothing is open at the end, and a
\* tag in the common prefix (by identity) of the tag stacks of two
\* consecutive chunks is not closed and opened again between them, so that
\* each chunk opens only the tags of its stack above that prefix.
RECURSIVE Nested(_, _, _)
Nested(tokens, i, open) ==
    IF i > Len(tokens) THEN open = <<>>
    ELSE IF tokens[i].k = "open" THEN Nested(tokens, i + 1, Append(open, tokens[i].tag))
    ELSE IF tokens[i].k = "close"
    THEN open # <<>> /\ Top(open) = tokens[i].tag /\ Nested(tokens, i + 1, Pop(open))
    ELSE Nested(tokens, i + 1, open)

NumOpens(tokens) == Cardinality({i \in 1..Len(tokens) : tokens[i].k = "open"})

CommonPrefixLen(s, t) ==
    Cardinality({j \in 1..Len(s) : j <= Len(t) /\ \A q \in 1..j : s[q] = t[q]})

\* The open tags chunk i must give: its stack above the prefix shared with
\* the chunk before it, and the tags of its inline content.
OpensOfChunk(chunks, i) ==
    Len(chunks[i].tags)
    - (IF i = 1 THEN 0 ELSE CommonPrefixLen(chunks[i - 1].tags, chunks[i].tags))
    + (IF chunks[i].inline_content.kind = "tag" THEN 1
       ELSE IF chunks[i].inline_content.kind = "doc"
       THEN NumOpens(Doc_get_html(heap, chunks[i].inline_content.doc, 1))
       ELSE 0)

RECURSIVE SumOpens(_, _)
SumOpens(chunks, i) ==
    IF i > Len(chunks) THEN 0 ELSE OpensOfChunk(chunks, i) + SumOpens(chunks, i + 1)

C31_HtmlNested ==
    stage = "block_html" =>
        /\ Nested(html, 1, <<>>)
        /\ NumOpens(html) = SumOpens(textBlock.text_chunks, 1)

\* <b>a<a>a</a></b><a>a</a>-like blocks: a tag shared by two chunks, and a
\* tag closed and another opened between two chunks.
C31_Witness ==
    /\ stage = "block_html"
    /\ Len(textBlock.text_chunks) = 3
    /\ textBlock.text_chunks[1].tags = <<1>>
    /\ textBlock.text_chunks[2].tags = <<1, 2>>
    /\ textBlock.text_chunks[3].tags = <<2, 1>>
    /\ NumOpens(html) = 4

\* C32: add_inline_content with a category link appends the tag to
\* doc.categories and changes nothing else of the builder; with any other
\* content it appends one chunk with empty text, the content and the open
\* inline annotations.  No chunk, pending or in a text block of the Doc, has
\* a category as its content, and no item of the Doc is a category tag.
CategoryRouted(b, after, content) ==
    IF isCategory(heap[content.tag])
    THEN after = [b EXCEPT !.doc.categories = Append(@, content.tag)]
    ELSE /\ after.text_chunks =
               Append(b.text_chunks, TextChunk(<<>>, b.inline_annotation_tags, content))
         /\ after.doc = b.doc

NoCategoryChunk(chunks) ==
    \A i \in 1..Len(chunks) :
        chunks[i].inline_content.kind = "tag"
            => ~isCategory(heap[chunks[i].inline_content.tag])

NoCategoryInDoc(b) ==
    /\ NoCategoryChunk(b.text_chunks)
    /\ \A k \in 1..Len(b.doc.items) :
          LET item == b.doc.items[k] IN
          IF item.type \in {"open", "close"} THEN ~isCategory(heap[item.tag])
          ELSE item.type = "textblock" => NoCategoryChunk(item.block.text_chunks)

C32_CategoryRouted ==
    [][(stage = "builder" /\ NoCategoryInDoc(Cur(builders)))
          => /\ NoCategoryInDoc(Cur(builders'))
             /\ \A content \in InlineContents, cs \in BOOLEAN :
                   AddInlineContentOf(content, cs)
                       => CategoryRouted(Cur(builders), Cur(builders'), content)]_vars

\* A category was given while a chunk was pending and the block was not
\* segmentable, and as a block tag as well.
C32_Witness ==
    /\ stage = "builder"
    /\ Len(Cur(builders).doc.categories) = 1
    /\ Len(Cur(builders).text_chunks) = 2
    /\ ~Cur(builders).is_block_segmentable
    /\ Cur(builders).BLOCK_TAGS = <<4>>
    /\ Cur(builders).doc.items = <<>>

\* C33: with isolateSegments, the cx-segment-block div pushed when a segment
\* tag opened is popped when that tag closes, whatever kind of tag it is: after
\* the close the div is on no block stack and its open item has its close
\* item.
SegmentTagCloses ==
    /\ stage = "parse" /\ CloseTag
    /\ options.isolateSegments /\ isSegment(heap[Top(allTags)])
    /\ Len(heap) > Top(allTags) /\ heap[Top(allTags) + 1] = SegmentBlockTag

NumItems(b, item) ==
    Cardinality({k \in 1..Len(b.doc.items) : b.doc.items[k] = item})

SegmentBlockClosed(div) ==
    \A i \in 1..Len(builders') :
        /\ \A k \in 1..Len(builders'[i].BLOCK_TAGS) : builders'[i].BLOCK_TAGS[k] # div
        /\ NumItems(builders'[i], OpenItem(div)) = NumItems(builders'[i], CloseItem(div))

C33_SegmentBlockPopped ==
    [][SegmentTagCloses => SegmentBlockClosed(Top(allTags) + 1)]_vars

\* C34: the synchronous pass of TextBlock.adapt starts every adaptation
\* request of the block, one per eligible tag and per eligible inline
\* content, while every promise of the call is still pending and no chunk
\* has been changed; no request is started afterwards.
ChunkTagSet(blk) ==
    UNION {{blk.text_chunks[i].tags[j] : j \in 1..Len(blk.text_chunks[i].tags)} :
              i \in 1..Len(blk.text_chunks)}

EligibleTag(t, adapters) ==
    /\ t \in adapters
    /\ ~is_transclusion_fragment(heap[t])
    /\ heap[t].attributes.data_cx \in {U, EmptyDataCX}

EligibleContents(blk, adapters) ==
    {i \in 1..Len(blk.text_chunks) :
        LET c == blk.text_chunks[i].inline_content IN
        \/ c.kind = "doc"
        \/ c.kind = "tag" /\ c.tag \in adapters /\ ~is_transclusion_fragment(heap[c.tag])}

C34_RequestsStartedTogether ==
    /\ [][(stage = "adapt" /\ stage' = "adapting")
            => /\ Len(adaptation'.adapterPromises) =
                     Cardinality({t \in ChunkTagSet(textBlock) :
                                     EligibleTag(t, returned'.getAdapter)})
                     + Cardinality(EligibleContents(textBlock, returned'.getAdapter))
               /\ \A i \in DOMAIN adaptation'.adapterPromises :
                     adaptation'.adapterPromises[i].state = Pending
               /\ \A k \in DOMAIN adaptation'.textChunkPromises :
                     adaptation'.textChunkPromises[k].state = Pending
               /\ textBlock' = textBlock]_vars
    /\ [][stage = "adapting"
            => Len(adaptation'.adapterPromises) = Len(adaptation.adapterPromises)]_vars

\* Two chunks, a request for a tag of the first and one for the inline
\* content of the second; the continuation of the second has run while the
\* first request is pending.
C34_Witness ==
    /\ stage = "adapting"
    /\ Len(adaptation.adapterPromises) = 2
    /\ adaptation.adapterPromises[1].source = "tags"
    /\ \E k \in DOMAIN adaptation.textChunkPromises :
          adaptation.textChunkPromises[k].kind = "then"
          /\ adaptation.textChunkPromises[k].state = Fulfilled
    /\ \E i \in DOMAIN adaptation.adapterPromises :
          adaptation.adapterPromises[i].state = Pending

\* C39: adapt calls adapter.adapt() once for each tag object of the tag
\* stacks that has an adapter, is no transclusion fragment and has no
\* non-empty data-cx, however many chunks hold the tag, and for no other tag
\* of the stacks.
TagRequests(a) ==
    Cardinality({i \in DOMAIN a.adapterPromises : a.adapterPromises[i].source = "tags"})

C35_FlagResetBetweenBlocks ==
    stage = "builder" =>
        \A i \in 1..Len(builders) :
            builders[i].text_chunks = <<>> => builders[i].is_block_segmentable

\* A text block that was not segmentable has been finished, a category was
\* given since, and nothing is pending.
C35_Witness ==
    /\ stage = "builder"
    /\ Cur(builders).text_chunks = <<>>
    /\ Cur(builders).doc.categories # <<>>
    /\ Cur(builders).is_block_segmentable
    /\ Len(Cur(builders).doc.items) = 1
    /\ Cur(builders).doc.items[1].type = "textblock"
    /\ ~Cur(builders).doc.items[1].block.can_segment

\* C37: pop_inline_annotation_tag leaves is_block_segmentable as it was,
\* also when it replaces trailing whitespace chunks by a sub-document.
C37_PopKeepsSegmentable ==
    [][\A tag_name \in CloseInlineNames :
          (stage = "builder" /\ PopInlineAnnotationTagOf(tag_name))
              => Cur(builders').is_block_segmentable
                     = Cur(builders).is_block_segmentable]_vars

\* C38: push_block_tag, pop_block_tag and finish_text_block leave the inline
\* annotation stack as it is; no call changes the tag stack of a chunk that
\* exists already, pending or in a text block of the Doc (a call keeps the
\* pending chunks, or a first part of them, and adds at most one chunk with
\* the open annotations, or moves them all to the Doc); and a new text chunk
\* gets the open annotations, also those opened before the last block
\* boundary.
BlockCall == PushBlockTag \/ PopBlockTag \/ FinishTextBlock

DocChunks(b) ==
    Concat([k \in 1..Len(b.doc.items) |->
               IF b.doc.items[k].type = "textblock"
               THEN b.doc.items[k].block.text_chunks ELSE <<>>])

ChunksKept(b, after) ==
    /\ IsPrefix(DocChunks(b), DocChunks(after))
    /\ \/ /\ DocChunks(after) = DocChunks(b)
          /\ \E k \in 0..Len(b.text_chunks) :
                /\ SubSeq(after.text_chunks, 1, k) = SubSeq(b.text_chunks, 1, k)
                /\ Len(after.text_chunks) <= k + 1
                /\ Len(after.text_chunks) = k + 1
                      => after.text_chunks[k + 1].tags = after.inline_annotation_tags
       \/ /\ DocChunks(after) = DocChunks(b) \o b.text_chunks
          /\ after.text_chunks = <<>>

C38_AnnotationsAcrossBlocks ==
    [][stage = "builder"
          => /\ BlockCall => Cur(builders').inline_annotation_tags
                                 = Cur(builders).inline_annotation_tags
             /\ ChunksKept(Cur(builders), Cur(builders'))
             /\ AddTextChunk
                   => LET chunks == Cur(builders').text_chunks IN
                      chunks[Len(chunks)].tags = Cur(builders).inline_annotation_tags]_vars

\* <b> was opened before a paragraph: the chunk of the text block before
\* the paragraph and the chunk pending inside it both carry the <b>.
C38_Witness ==
    /\ stage = "builder"
    /\ Cur(builders).inline_annotation_tags = <<5>>
    /\ Cur(builders).BLOCK_TAGS = <<1>>
    /\ Len(Cur(builders).doc.items) = 2
    /\ Cur(builders).doc.items[1].type = "textblock"
    /\ Cur(builders).doc.items[1].block.text_chunks[1].tags = <<5>>
    /\ Len(Cur(builders).text_chunks) = 1
    /\ Cur(builders).text_chunks[1].tags = <<5>>

\* The target ranges of the mappings lie inside the target text and no two
\* of them share a position.
TargetsDisjoint(targetText, rangeMappings) ==
    /\ \A i \in 1..Len(rangeMappings) :
          rangeMappings[i].target.start + rangeMappings[i].target.length
              <= Len(targetText)
    /\ \A i, j \in 1..Len(rangeMappings) :
          i < j => LET a == rangeMappings[i].target
                       b == rangeMappings[j].target
                   IN  \/ a.start + a.length <= b.start
                       \/ b.start + b.length <= a.start

\* C36: translate_tags does not throw the overlap error when the target
\* ranges of the mappings are disjoint and inside the target text, in
\* whatever order the mappings are listed and wherever the block has chunks
\* without text.
C36_DisjointTargetsTranslate ==
    (/\ stage = "translate_tags"
     /\ TargetsDisjoint(translation.targetText, translation.rangeMappings))
        => error # OverlapError
====
